---- MODULE Spec2Model ----
(***************************************************************************)
(* wagom-player: the playlist engine (wagom_player/playlist.py,            *)
(* wagom_player/sorting.py) and the playback session controller            *)
(* (wagom_player/main_window.py, class VideoPlayer) as state machines.     *)
(*                                                                         *)
(* Python strings are sequences of one-character strings, so that          *)
(* basename, splitext, lower, casefold, abspath and the sort key are       *)
(* computed the way the Python code computes them.  Optional[...] values   *)
(* are sequences too: None is <<>> and a present value x is <<x>>.         *)
(***************************************************************************)
EXTENDS Integers, Sequences, FiniteSets, TLC

VARIABLES
    \* ---- PlaylistManager (playlist.py:19-28)
    files,              \* List[str]
    current_index,      \* int
    shuffle_enabled,    \* bool
    repeat_enabled,     \* bool
    _shuffled,          \* List[str]
    \* ---- the last PlaylistManager call and what it was applied to
    last,
    \* ---- one call of load(paths, current): its arguments and position
    arg_paths, arg_current, pc,
    \* ---- VideoPlayer (main_window.py:146-292); its current_index,
    \* ---- shuffle_enabled and repeat_enabled carry the prefix vp_
    directory_playlist, \* List[str]
    vp_current_index,   \* int
    vp_shuffle_enabled, \* bool
    vp_repeat_enabled,  \* bool
    shuffled_playlist,  \* List[str]
    _is_changing_media, \* bool
    _ending,            \* bool
    \* ---- what the VideoPlayer runs in
    timers,             \* pending QTimer.singleShot callbacks, oldest first
    in_play_at,         \* the play_at call that is inside processEvents()
    engine_state,       \* vlc.State of self.player
    engine_media,       \* the media self.player holds ("" for none)
    media_ended,        \* media_ended signals queued for the UI thread
    disk,               \* the files present in the file system
    raised,             \* the exception the last handler raised to the event loop ("" for none)
    status,             \* the message self.status shows
    playback_rate,      \* float, here in hundredths
    engine_rate,        \* the rate last handed to self.player.set_rate, in hundredths
    seek                \* the last seek_by call: what the engine reported and got

pmvars == <<files, current_index, shuffle_enabled, repeat_enabled, _shuffled>>
callvars == <<last, arg_paths, arg_current, pc>>
vpvars == <<directory_playlist, vp_current_index, vp_shuffle_enabled,
            vp_repeat_enabled, shuffled_playlist, _is_changing_media, _ending,
            timers, in_play_at, engine_state, engine_media, media_ended,
            disk, raised, status, playback_rate, engine_rate, seek>>
vars == <<files, current_index, shuffle_enabled, repeat_enabled, _shuffled,
          last, arg_paths, arg_current, pc,
          directory_playlist, vp_current_index, vp_shuffle_enabled,
          vp_repeat_enabled, shuffled_playlist, _is_changing_media, _ending,
          timers, in_play_at, engine_state, engine_media, media_ended,
          disk, raised, status, playback_rate, engine_rate, seek>>

\* ------------------------------------------------------------------------
\* Bounds
\* ------------------------------------------------------------------------
\* longest path list handed to load() by the state machine Spec
MaxFiles == 3
\* longest path list handed to load() by the single-call specification SpecLoad
MaxLen == 3

\* ------------------------------------------------------------------------
\* Strings
\* ------------------------------------------------------------------------
None == <<>>
Some(x) == <<x>>

\* the characters that occur, in code-point (ASCII) order
Ascii == <<" ", "-", ".", "/", "0", "1", "2", "3", "4", "5", "6", "7", "8", "9",
           "A", "B", "F", "K", "M", "V",
           "a", "b", "c", "e", "f", "g", "i", "k", "l", "m", "n", "o", "p", "r",
           "s", "t", "v", "w", "x">>
Chars == {Ascii[i] : i \in 1..Len(Ascii)}
\* rank of a character in code-point order (order-isomorphic to ord())
Ord == [c \in Chars |-> CHOOSE i \in 1..Len(Ascii) : Ascii[i] = c]

UpperCase == <<"A", "B", "F", "K", "M", "V">>
LowerCase == <<"a", "b", "f", "k", "m", "v">>
DigitChars == <<"0", "1", "2", "3", "4", "5", "6", "7", "8", "9">>
Digits == {DigitChars[i] : i \in 1..10}
DigitValue == [c \in Digits |-> CHOOSE n \in 0..9 : DigitChars[n + 1] = c]
\* str(n) of an int n >= 0
RECURSIVE DecimalOf(_)
DecimalOf(n) ==
    IF n < 10 THEN <<DigitChars[n + 1]>>
    ELSE DecimalOf(n \div 10) \o <<DigitChars[(n % 10) + 1]>>

\* str.lower() / str.casefold() on one character (they agree on ASCII)
LowerChar(c) ==
    IF \E i \in 1..Len(UpperCase) : UpperCase[i] = c
    THEN LowerCase[CHOOSE i \in 1..Len(UpperCase) : UpperCase[i] = c]
    ELSE c

lower(s) == [i \in 1..Len(s) |-> LowerChar(s[i])]
casefold(s) == [i \in 1..Len(s) |-> LowerChar(s[i])]

\* s[i:] and s[:i] with 1-based i
Drop(s, n) == SubSeq(s, n + 1, Len(s))
Take(s, n) == SubSeq(s, 1, n)

\* positions of character c in s
Positions(s, c) == {i \in 1..Len(s) : s[i] = c}
Max(S) == CHOOSE x \in S : \A y \in S : y <= x
Min(S) == CHOOSE x \in S : \A y \in S : x <= y

\* Python's < on str: code-point lexicographic order
RECURSIVE StrLess(_, _)
StrLess(a, b) ==
    IF b = <<>> THEN FALSE
    ELSE IF a = <<>> THEN TRUE
    ELSE IF a[1] # b[1] THEN Ord[a[1]] < Ord[b[1]]
    ELSE StrLess(Tail(a), Tail(b))

\* list.index(x): the first position (0-based) as Some, None for ValueError
IndexOf(list, x) ==
    IF \E i \in 1..Len(list) : list[i] = x
    THEN Some(Min({i \in 1..Len(list) : list[i] = x}) - 1)
    ELSE None

\* the list without its element at 0-based position i (list.pop(i))
Pop(list, i) == Take(list, i) \o Drop(list, i + 1)

\* list.remove(x): drops the first occurrence; unchanged on ValueError
RemoveFirst(list, x) ==
    IF IndexOf(list, x) = None THEN list ELSE Pop(list, IndexOf(list, x)[1])

\* [p for p in list if keep(p)]
RECURSIVE SelectSeqNot(_, _)
SelectSeqNot(list, x) ==
    IF list = <<>> THEN <<>>
    ELSE IF list[1] = x THEN SelectSeqNot(Tail(list), x)
    ELSE <<list[1]>> \o SelectSeqNot(Tail(list), x)

\* all sequences over S of length at most n
SeqsUpTo(S, n) == UNION {[1..k -> S] : k \in 0..n}

\* all orders random.shuffle may leave a list in
RECURSIVE ShuffleOutcomes(_)
ShuffleOutcomes(list) ==
    IF list = <<>> THEN {<<>>}
    ELSE UNION {{<<list[i]>> \o rest : rest \in ShuffleOutcomes(Pop(list, i - 1))} :
                   i \in 1..Len(list)}

\* ------------------------------------------------------------------------
\* The paths the calls are made with.  A path is held by name; Str gives
\* its characters and Intern the name of a character sequence.
\* ------------------------------------------------------------------------
PathA1 == "/t/a1.mkv"
PathB2 == "/t/b2.mkv"
PathF3 == "/t/f3.mp4"
\* not a video
PathTxt == "/t/n.txt"
\* relative: abspath resolves it against Cwd
PathRelB2 == "b2.mkv"
\* differs from PathA1 in letter case only
PathUpperA1 == "/t/A1.MKV"
\* the directory the files are in
DirT == "/t"
\* the files present when the player starts
DiskAtStart == {PathA1, PathB2, PathF3, PathTxt}

\* differs from PathB2 in letter case only
PathUpperB2 == "/t/B2.MKV"
\* names with digit runs and mixed case, in three directories
SortPaths ==
    {"/t/File10.mp4", "/t/file2.mp4", "/t/file-3.mp4", "/x/File1.mp4",
     "/t/file10.mp4", "/a/file1.mp4"}
\* one name for each extension of SUPPORTED_VIDEO_EXTENSIONS, and one without
NamesByExtension ==
    {"/t/c.mp4", "/t/c.mkv", "/t/c.avi", "/t/c.mov", "/t/c.wmv",
     "/t/c.flv", "/t/c.ts", "/t/c.m4v", "/t/c.3gp", "/t/c.3g2",
     "/t/c.mpeg", "/t/c.mpg", "/t/c.mpe", "/t/c.rm", "/t/c.rmvb",
     "/t/c.vob", "/t/c.webm", "/t/c"}
\* further paths with their characters
MoreChars ==
    {<<"/t/B2.MKV", <<"/", "t", "/", "B", "2", ".", "M", "K", "V">>>>,
     <<"/t/File10.mp4", <<"/", "t", "/", "F", "i", "l", "e", "1", "0", ".", "m", "p", "4">>>>,
     <<"/t/file2.mp4", <<"/", "t", "/", "f", "i", "l", "e", "2", ".", "m", "p", "4">>>>,
     <<"/t/file-3.mp4", <<"/", "t", "/", "f", "i", "l", "e", "-", "3", ".", "m", "p", "4">>>>,
     <<"/x/File1.mp4", <<"/", "x", "/", "F", "i", "l", "e", "1", ".", "m", "p", "4">>>>,
     <<"/t/file10.mp4", <<"/", "t", "/", "f", "i", "l", "e", "1", "0", ".", "m", "p", "4">>>>,
     <<"/a/file1.mp4", <<"/", "a", "/", "f", "i", "l", "e", "1", ".", "m", "p", "4">>>>,
     <<"/t/c.mp4", <<"/", "t", "/", "c", ".", "m", "p", "4">>>>,
     <<"/t/c.mkv", <<"/", "t", "/", "c", ".", "m", "k", "v">>>>,
     <<"/t/c.avi", <<"/", "t", "/", "c", ".", "a", "v", "i">>>>,
     <<"/t/c.mov", <<"/", "t", "/", "c", ".", "m", "o", "v">>>>,
     <<"/t/c.wmv", <<"/", "t", "/", "c", ".", "w", "m", "v">>>>,
     <<"/t/c.flv", <<"/", "t", "/", "c", ".", "f", "l", "v">>>>,
     <<"/t/c.ts", <<"/", "t", "/", "c", ".", "t", "s">>>>,
     <<"/t/c.m4v", <<"/", "t", "/", "c", ".", "m", "4", "v">>>>,
     <<"/t/c.3gp", <<"/", "t", "/", "c", ".", "3", "g", "p">>>>,
     <<"/t/c.3g2", <<"/", "t", "/", "c", ".", "3", "g", "2">>>>,
     <<"/t/c.mpeg", <<"/", "t", "/", "c", ".", "m", "p", "e", "g">>>>,
     <<"/t/c.mpg", <<"/", "t", "/", "c", ".", "m", "p", "g">>>>,
     <<"/t/c.mpe", <<"/", "t", "/", "c", ".", "m", "p", "e">>>>,
     <<"/t/c.rm", <<"/", "t", "/", "c", ".", "r", "m">>>>,
     <<"/t/c.rmvb", <<"/", "t", "/", "c", ".", "r", "m", "v", "b">>>>,
     <<"/t/c.vob", <<"/", "t", "/", "c", ".", "v", "o", "b">>>>,
     <<"/t/c.webm", <<"/", "t", "/", "c", ".", "w", "e", "b", "m">>>>,
     <<"/t/c", <<"/", "t", "/", "c">>>>,
     <<"/x", <<"/", "x">>>>}

CharsTable ==
    [p \in {PathA1, PathB2, PathF3, PathTxt, PathRelB2, PathUpperA1, DirT, ""}
            \cup {e[1] : e \in MoreChars} |->
        CASE p = PathA1 -> <<"/", "t", "/", "a", "1", ".", "m", "k", "v">>
          [] p = PathB2 -> <<"/", "t", "/", "b", "2", ".", "m", "k", "v">>
          [] p = PathF3 -> <<"/", "t", "/", "f", "3", ".", "m", "p", "4">>
          [] p = PathTxt -> <<"/", "t", "/", "n", ".", "t", "x", "t">>
          [] p = PathRelB2 -> <<"b", "2", ".", "m", "k", "v">>
          [] p = PathUpperA1 -> <<"/", "t", "/", "A", "1", ".", "M", "K", "V">>
          [] p = DirT -> <<"/", "t">>
          [] p = "" -> <<>>
          [] OTHER -> (CHOOSE e \in MoreChars : e[1] = p)[2]]
Str(p) == CharsTable[p]
Intern(cs) == CHOOSE p \in DOMAIN CharsTable : CharsTable[p] = cs

\* the paths handed to the state machine
MachinePaths == {PathA1, PathB2, PathF3, PathTxt}
\* the paths handed to the single load call
LoadPaths == {PathA1, PathB2, PathF3, PathTxt, PathRelB2, PathUpperA1}
\* the paths of the extension check: every name of NamesByExtension, a
\* text file and an upper-case extension
ExtPaths == NamesByExtension \cup {PathTxt, PathUpperA1}
\* the paths handed to the single load call as current
CurrentPaths == LoadPaths \cup {PathUpperB2}
\* the lists loaded before the single load call
PriorLists == {<<PathB2, PathA1>>, <<PathF3>>}
\* every path that occurs
AllPaths == MachinePaths \cup LoadPaths \cup {PathUpperB2} \cup SortPaths \cup ExtPaths

\* ------------------------------------------------------------------------
\* os.path (posixpath)
\* ------------------------------------------------------------------------
\* os.getcwd(): the directory relative paths are resolved against
Cwd == <<"/", "t">>

\* 0-based index of the last "/" (str.rfind), -1 when there is none
RFind(p, c) == IF Positions(p, c) = {} THEN -1 ELSE Max(Positions(p, c)) - 1

\* os.path.basename: what follows the last "/"
basename(p) == Drop(p, RFind(p, "/") + 1)

\* os.path.dirname: what precedes the last "/" (the root keeps its slash)
dirname(p) ==
    LET head == Take(p, RFind(p, "/") + 1)
    IN  IF head # <<>> /\ \E i \in 1..Len(head) : head[i] # "/"
        THEN Take(head, Max({i \in 1..Len(head) : head[i] # "/"}))
        ELSE head

\* os.path.splitext(p)[1]: from the last dot of the basename, unless only
\* dots precede it there
splitext_ext(p) ==
    LET sepIndex == RFind(p, "/")
        dotIndex == RFind(p, ".")
    IN  IF dotIndex > sepIndex
           /\ \E k \in (sepIndex + 1)..(dotIndex - 1) : p[k + 1] # "."
        THEN Drop(p, dotIndex)
        ELSE <<>>

\* str.split("/")
RECURSIVE Split(_)
Split(p) ==
    IF Positions(p, "/") = {} THEN <<p>>
    ELSE LET i == Min(Positions(p, "/"))
         IN  <<Take(p, i - 1)>> \o Split(Drop(p, i))

\* "/".join(comps)
RECURSIVE Join(_)
Join(comps) ==
    IF comps = <<>> THEN <<>>
    ELSE IF Len(comps) = 1 THEN comps[1]
    ELSE comps[1] \o <<"/">> \o Join(Tail(comps))

DotDot == <<".", ".">>

\* the loop of os.path.normpath over the components
RECURSIVE NormComps(_, _, _)
NormComps(comps, new_comps, initial_slashes) ==
    IF comps = <<>> THEN new_comps
    ELSE LET comp == comps[1]
             rest == Tail(comps)
         IN  IF comp = <<>> \/ comp = <<".">>
             THEN NormComps(rest, new_comps, initial_slashes)
             ELSE IF comp # DotDot
                     \/ (initial_slashes = 0 /\ new_comps = <<>>)
                     \/ (new_comps # <<>> /\ new_comps[Len(new_comps)] = DotDot)
             THEN NormComps(rest, Append(new_comps, comp), initial_slashes)
             ELSE IF new_comps # <<>>
             THEN NormComps(rest, Take(new_comps, Len(new_comps) - 1), initial_slashes)
             ELSE NormComps(rest, new_comps, initial_slashes)

StartsWith(p, q) == Len(p) >= Len(q) /\ Take(p, Len(q)) = q

normpath(p) ==
    IF p = <<>> THEN <<".">>
    ELSE LET initial_slashes ==
                 IF ~StartsWith(p, <<"/">>) THEN 0
                 ELSE IF StartsWith(p, <<"/", "/">>) /\ ~StartsWith(p, <<"/", "/", "/">>)
                 THEN 2 ELSE 1
             joined == Join(NormComps(Split(p), <<>>, initial_slashes))
             path == [i \in 1..initial_slashes |-> "/"] \o joined
         IN  IF path = <<>> THEN <<".">> ELSE path

\* os.path.join(a, b) for a relative b
join(a, b) ==
    IF StartsWith(b, <<"/">>) THEN b
    ELSE IF a = <<>> \/ a[Len(a)] = "/" THEN a \o b
    ELSE a \o <<"/">> \o b

abspath(p) == normpath(IF StartsWith(p, <<"/">>) THEN p ELSE join(Cwd, p))

\* ------------------------------------------------------------------------
\* sorting.py
\* ------------------------------------------------------------------------
\* re.split(r"(\d+)", name): alternating text and digit runs, text first
\* and last (possibly empty)
RECURSIVE SplitDigitRuns(_, _, _)
SplitDigitRuns(name, run, in_digits) ==
    IF name = <<>> THEN IF in_digits THEN <<run, <<>> >> ELSE <<run>>
    ELSE IF (name[1] \in Digits) = in_digits
    THEN SplitDigitRuns(Tail(name), Append(run, name[1]), in_digits)
    ELSE <<run>> \o SplitDigitRuns(Tail(name), <<name[1]>>, ~in_digits)

\* int(p) of a digit run
RECURSIVE IntOf(_, _)
IntOf(digits, acc) ==
    IF digits = <<>> THEN acc
    ELSE IntOf(Tail(digits), 10 * acc + DigitValue[digits[1]])

\* natural_key(path): int for a digit run, the case-folded text otherwise
natural_key(path) ==
    LET parts == SplitDigitRuns(basename(path), <<>>, FALSE)
    IN  [i \in 1..Len(parts) |->
            IF parts[i] # <<>> /\ \A k \in 1..Len(parts[i]) : parts[i][k] \in Digits
            THEN [kind |-> "int", n |-> IntOf(parts[i], 0), s |-> <<>>]
            ELSE [kind |-> "str", n |-> 0, s |-> casefold(parts[i])]]

\* locale.strxfrm in the "C" collation locale (LC_COLLATE is never set by
\* the package): the code points themselves
locale_transform(s) == [i \in 1..Len(s) |-> Ord[s[i]]]

\* < on the transformed strings
RECURSIVE XfrmLess(_, _)
XfrmLess(a, b) ==
    IF b = <<>> THEN FALSE
    ELSE IF a = <<>> THEN TRUE
    ELSE IF a[1] # b[1] THEN a[1] < b[1]
    ELSE XfrmLess(Tail(a), Tail(b))

\* < on two natural_key lists (Python list comparison).  An int part met
\* by a str part raises TypeError in Python; the tuple comparison below
\* reaches this operator only for equal case-folded names, whose natural
\* keys are equal, so that case is never evaluated.
RECURSIVE NaturalLess(_, _)
NaturalLess(a, b) ==
    IF b = <<>> THEN FALSE
    ELSE IF a = <<>> THEN TRUE
    ELSE IF a[1] = b[1] THEN NaturalLess(Tail(a), Tail(b))
    ELSE IF a[1].kind = "int" /\ b[1].kind = "int" THEN a[1].n < b[1].n
    ELSE IF a[1].kind = "str" /\ b[1].kind = "str" THEN StrLess(a[1].s, b[1].s)
    ELSE FALSE

\* a key taken from the whole path instead of the basename
KeyOfWholePath(path) ==
    [xfrm |-> locale_transform(casefold(path)), natural |-> natural_key(path)]

\* _fallback_key(path): the key used when no platform comparer is loaded
windows_logical_key(path) ==
    [xfrm |-> locale_transform(casefold(basename(path))), natural |-> natural_key(path)]

\* < on two keys (Python tuple comparison)
KeyLess(ka, kb) ==
    IF ka.xfrm # kb.xfrm THEN XfrmLess(ka.xfrm, kb.xfrm)
    ELSE NaturalLess(ka.natural, kb.natural)

\* the keys of the paths that occur and their comparisons, computed once
KeyTable == [p \in AllPaths |-> windows_logical_key(Str(p))]
KeyLessTable == [a \in AllPaths |-> [b \in AllPaths |-> KeyLess(KeyTable[a], KeyTable[b])]]
\* key(a) < key(b)
PathLess(a, b) == KeyLessTable[a][b]

\* list.sort(key=windows_logical_key): stable, so an element goes behind
\* every element already placed whose key is not greater
RECURSIVE InsertByKey(_, _)
InsertByKey(sorted, x) ==
    IF sorted = <<>> THEN <<x>>
    ELSE IF PathLess(x, sorted[1])
    THEN <<x>> \o sorted
    ELSE <<sorted[1]>> \o InsertByKey(Tail(sorted), x)

RECURSIVE SortInto(_, _)
SortInto(sorted, list) ==
    IF list = <<>> THEN sorted
    ELSE SortInto(InsertByKey(sorted, list[1]), Tail(list))

SortByKey(list) == SortInto(<<>>, list)

\* ------------------------------------------------------------------------
\* playlist.py: PlaylistManager
\* ------------------------------------------------------------------------
\* ".mp4", ".mkv", ... as character sequences
Ext(s) == <<".">> \o s
VIDEO_EXTENSIONS ==
    {Ext(<<"m", "p", "4">>), Ext(<<"m", "k", "v">>), Ext(<<"a", "v", "i">>),
     Ext(<<"m", "o", "v">>), Ext(<<"w", "m", "v">>), Ext(<<"f", "l", "v">>),
     Ext(<<"w", "e", "b", "m">>)}

is_supported_video(path) == lower(splitext_ext(path)) \in VIDEO_EXTENSIONS

\* is_supported_video and os.path.abspath of the paths that occur, computed once
SupportedTable == [p \in AllPaths |-> is_supported_video(Str(p))]
AbsTable == [p \in AllPaths |-> Intern(abspath(Str(p)))]
Supported(p) == SupportedTable[p]
Abs(p) == AbsTable[p]

\* [os.path.abspath(p) for p in files if is_supported_video(p)]
RECURSIVE FilterSupported(_)
FilterSupported(paths) ==
    IF paths = <<>> THEN <<>>
    ELSE IF Supported(paths[1])
    THEN <<Abs(paths[1])>> \o FilterSupported(Tail(paths))
    ELSE FilterSupported(Tail(paths))

\* the property current_path, of given fields
CurrentPathOf(fs, ci) ==
    IF 0 <= ci /\ ci < Len(fs) THEN fs[ci + 1] ELSE ""

current_path == CurrentPathOf(files, current_index)

_resolve_index(fs, current) ==
    IF fs = <<>> THEN -1
    ELSE IF current = None THEN 0
    ELSE IF IndexOf(fs, Abs(current[1])) # None THEN IndexOf(fs, Abs(current[1]))[1]
    ELSE 0

\* (mutant) the shuffle covers the current entry too: nothing is pinned first
RebuildShuffleUnpinned(fs, ci, enabled, shuffled, force_empty) ==
    IF ~enabled \/ fs = <<>> THEN {IF force_empty THEN <<>> ELSE shuffled}
    ELSE ShuffleOutcomes(fs)

\* _rebuild_shuffle: every value it may leave in _shuffled, given the
\* fields it reads (fs, ci, enabled) and the previous _shuffled
_rebuild_shuffle(fs, ci, enabled, shuffled, force_empty) ==
    LET cleared == IF force_empty THEN <<>> ELSE shuffled
        cp == CurrentPathOf(fs, ci)
    IN  IF ~enabled \/ fs = <<>> THEN {cleared}
        ELSE {IF cp # "" THEN <<cp>> \o remaining ELSE remaining :
                 remaining \in ShuffleOutcomes(SelectSeqNot(fs, cp))}

\* the property current_playlist
CurrentPlaylistOf(fs, enabled, shuffled) ==
    IF enabled /\ shuffled # <<>> THEN shuffled ELSE fs

current_playlist == CurrentPlaylistOf(files, shuffle_enabled, _shuffled)

\* (mutant) next_index without the repeat branch of line 84
NextIndexIgnoringRepeat ==
    LET playlist == current_playlist
    IN  IF playlist = <<>> THEN None
        ELSE IF current_path = "" THEN Some(0)
        ELSE LET idx == IndexOf(playlist, current_path)
             IN  IF idx = None THEN None
                 ELSE IF idx[1] + 1 >= Len(playlist) THEN None
                 ELSE IndexOf(files, playlist[idx[1] + 2])

\* next_index(): None or Some(index into files)
next_index ==
    LET playlist == current_playlist
    IN  IF playlist = <<>> THEN None
        ELSE IF repeat_enabled /\ current_path # "" THEN Some(current_index)
        ELSE IF current_path = "" THEN Some(0)
        ELSE LET idx == IndexOf(playlist, current_path)
             IN  IF idx = None THEN None
                 ELSE IF idx[1] + 1 >= Len(playlist) THEN None
                 ELSE IndexOf(files, playlist[idx[1] + 2])

\* previous_index(): None or Some(index into files)
previous_index ==
    LET playlist == current_playlist
    IN  IF playlist = <<>> \/ current_path = "" THEN None
        ELSE LET idx == IndexOf(playlist, current_path)
             IN  IF idx = None THEN None
                 ELSE IF idx[1] - 1 < 0 THEN None
                 ELSE IndexOf(files, playlist[idx[1]])

\* f"{position} / {total}"
PositionOfTotal(position, total) ==
    DecimalOf(position) \o <<" ", "/", " ">> \o DecimalOf(total)

\* describe(): the string "position / total"
describe ==
    LET total == Len(current_playlist)
    IN  IF total = 0 THEN <<"0", " ", "/", " ", "0">>
        ELSE IF current_path # "" /\ IndexOf(current_playlist, current_path) # None
        THEN PositionOfTotal(IndexOf(current_playlist, current_path)[1] + 1, total)
        ELSE PositionOfTotal(0, total)

\* ---- the operations, as actions on the PlaylistManager fields

\* load(files, current)
\* (mutant) load without the sort of line 32
LoadFilteredUnsorted(paths) == FilterSupported(paths)

\* lines 31-32: the list that load stores
LoadFiltered(paths) == SortByKey(FilterSupported(paths))

\* lines 33-35, filtered being the list of lines 31-32
LoadStore(filtered, current) ==
    /\ files' = filtered
    /\ _shuffled' \in _rebuild_shuffle(filtered, current_index, shuffle_enabled,
                                        _shuffled, TRUE)
    /\ current_index' = _resolve_index(filtered, current)
    /\ UNCHANGED <<shuffle_enabled, repeat_enabled>>

load(paths, current) == LoadStore(LoadFiltered(paths), current)

\* (mutant) set_shuffle that does not clear the old order
SetShuffleKeepingOrder(enabled) ==
    /\ shuffle_enabled' = enabled
    /\ _shuffled' \in _rebuild_shuffle(files, current_index, enabled, _shuffled, FALSE)
    /\ UNCHANGED <<files, current_index, repeat_enabled>>

\* set_shuffle(enabled)
set_shuffle(enabled) ==
    /\ shuffle_enabled' = enabled
    /\ _shuffled' \in _rebuild_shuffle(files, current_index, enabled, _shuffled, TRUE)
    /\ UNCHANGED <<files, current_index, repeat_enabled>>

\* set_repeat(enabled)
set_repeat(enabled) ==
    /\ repeat_enabled' = enabled
    /\ UNCHANGED <<files, current_index, shuffle_enabled, _shuffled>>

\* (mutant) remove without the clamp of line 128
RemoveIndexNoClamp(ci, index, new_len) ==
    LET adjusted == IF index < ci THEN ci - 1 ELSE ci
    IN  IF new_len = 0 THEN -1 ELSE adjusted

\* (mutant) remove without the decrement of line 126
RemoveIndexNoDecrement(ci, index, new_len) ==
    LET adjusted == IF index = ci THEN Min({ci, new_len - 1}) ELSE ci
    IN  IF new_len = 0 THEN -1 ELSE adjusted

\* the current_index remove(index) leaves, index being valid
RemoveIndex(ci, index, new_len) ==
    LET adjusted == IF index < ci THEN ci - 1
                    ELSE IF index = ci THEN Min({ci, new_len - 1})
                    ELSE ci
    IN  IF new_len = 0 THEN -1 ELSE adjusted

\* (mutant) remove that leaves the shuffle order alone (lines 120-124 lost)
RemoveShuffledStale(shuffled, enabled, removed_path, new_len) ==
    IF new_len = 0 THEN <<>> ELSE shuffled

\* the _shuffled remove(index) leaves, index being valid
RemoveShuffled(shuffled, enabled, removed_path, new_len) ==
    IF new_len = 0 THEN <<>>
    ELSE IF enabled THEN RemoveFirst(shuffled, removed_path)
    ELSE shuffled

\* remove(index)
remove(index) ==
    IF ~(0 <= index /\ index < Len(files)) THEN UNCHANGED pmvars
    ELSE LET removed_path == files[index + 1]
             popped == Pop(files, index)
         IN  /\ files' = popped
             /\ _shuffled' = RemoveShuffled(_shuffled, shuffle_enabled, removed_path,
                                            Len(popped))
             /\ current_index' = RemoveIndex(current_index, index, Len(popped))
             /\ UNCHANGED <<shuffle_enabled, repeat_enabled>>

\* ------------------------------------------------------------------------
\* Spec: the PlaylistManager under any sequence of calls
\* ------------------------------------------------------------------------
NoCall == [op |-> "init", index |-> -1, enabled |-> FALSE, pre_ci |-> -1]
Call(op, index, enabled) ==
    [op |-> op, index |-> index, enabled |-> enabled, pre_ci |-> current_index]

\* no seek_by call yet.  set_time: the argument of player.set_time, None when
\* it was not called
NoSeek == [t |-> -1, length |-> -1, delta |-> 0, set_time |-> None]

\* VideoPlayer(file=None): what __init__ leaves, the engine idle, no timer
\* pending and every file of the directory present
VideoPlayerConstructed ==
    /\ directory_playlist = <<>>
    /\ vp_current_index = -1
    /\ vp_shuffle_enabled = FALSE
    /\ vp_repeat_enabled = FALSE
    /\ shuffled_playlist = <<>>
    /\ _is_changing_media = FALSE
    /\ _ending = FALSE
    /\ timers = <<>>
    /\ in_play_at = None
    /\ engine_state = "NothingSpecial"
    /\ engine_media = ""
    /\ media_ended = 0
    /\ disk = DiskAtStart
    /\ raised = ""
    /\ status = "ready"
    /\ playback_rate = 100
    /\ engine_rate = 100
    /\ seek = NoSeek

\* PlaylistManager(): the dataclass defaults
Init ==
    /\ files = <<>>
    /\ current_index = -1
    /\ shuffle_enabled = FALSE
    /\ repeat_enabled = FALSE
    /\ _shuffled = <<>>
    /\ last = NoCall
    /\ arg_paths = <<>>
    /\ arg_current = None
    /\ pc = "machine"
    /\ VideoPlayerConstructed

\* what lines 31-32 of load make of the path lists the machine may hand
\* to it (computed once)
MachineLoads == {LoadFiltered(paths) : paths \in SeqsUpTo(MachinePaths, MaxFiles)}

\* load(paths, current) for any paths in SeqsUpTo(MachinePaths, MaxFiles)
Load ==
    \E filtered \in MachineLoads, current \in {None} \cup {Some(p) : p \in MachinePaths} :
        /\ LoadStore(filtered, current)
        /\ last' = Call("load", -1, FALSE)
        /\ UNCHANGED <<arg_paths, arg_current, pc>>
        /\ UNCHANGED vpvars

SetShuffle ==
    \E enabled \in BOOLEAN :
        /\ set_shuffle(enabled)
        /\ last' = Call("set_shuffle", -1, enabled)
        /\ UNCHANGED <<arg_paths, arg_current, pc>>
        /\ UNCHANGED vpvars

SetRepeat ==
    \E enabled \in BOOLEAN :
        /\ set_repeat(enabled)
        /\ last' = Call("set_repeat", -1, enabled)
        /\ UNCHANGED <<arg_paths, arg_current, pc>>
        /\ UNCHANGED vpvars

Remove ==
    \E index \in -1..Len(files) :
        /\ remove(index)
        /\ last' = Call("remove", index, FALSE)
        /\ UNCHANGED <<arg_paths, arg_current, pc>>
        /\ UNCHANGED vpvars

\* the caller selects the entry next_index() names
\* (manager.current_index = ..., as the tests do)
Advance ==
    /\ next_index # None
    /\ current_index' = next_index[1]
    /\ last' = Call("advance", -1, FALSE)
    /\ UNCHANGED <<files, shuffle_enabled, repeat_enabled, _shuffled,
                   arg_paths, arg_current, pc>>
    /\ UNCHANGED vpvars

\* the caller selects the entry previous_index() names
Retreat ==
    /\ previous_index # None
    /\ current_index' = previous_index[1]
    /\ last' = Call("retreat", -1, FALSE)
    /\ UNCHANGED <<files, shuffle_enabled, repeat_enabled, _shuffled,
                   arg_paths, arg_current, pc>>
    /\ UNCHANGED vpvars

Next == Load \/ SetShuffle \/ SetRepeat \/ Remove \/ Advance \/ Retreat

Spec == Init /\ [][Next]_vars

\* ------------------------------------------------------------------------
\* SpecLoad: one call load(arg_paths, arg_current), on a fresh manager or
\* on one that has loaded a list before
\* ------------------------------------------------------------------------
InitLoad ==
    /\ files = <<>>
    /\ current_index = -1
    /\ shuffle_enabled = FALSE
    /\ repeat_enabled = FALSE
    /\ _shuffled = <<>>
    /\ last = NoCall
    /\ arg_paths \in SeqsUpTo(LoadPaths, MaxLen)
    /\ arg_current \in {None} \cup {Some(p) : p \in CurrentPaths}
    /\ pc = "fresh"
    /\ VideoPlayerConstructed

LoadPrior ==
    /\ pc = "fresh"
    /\ \E prior \in PriorLists : load(prior, None)
    /\ pc' = "loaded"
    /\ last' = Call("load", -1, FALSE)
    /\ UNCHANGED <<arg_paths, arg_current>>
    /\ UNCHANGED vpvars

LoadCall ==
    /\ pc \in {"fresh", "loaded"}
    /\ load(arg_paths, arg_current)
    /\ pc' = "done"
    /\ last' = Call("load", -1, FALSE)
    /\ UNCHANGED <<arg_paths, arg_current>>
    /\ UNCHANGED vpvars

NextLoad == LoadPrior \/ LoadCall

SpecLoad == InitLoad /\ [][NextLoad]_vars

\* ------------------------------------------------------------------------
\* SpecExt: one call load(arg_paths) on a fresh manager, the paths carrying
\* every extension
\* ------------------------------------------------------------------------
\* longest path list handed to load() by SpecExt
MaxExt == 2

InitExt ==
    /\ files = <<>>
    /\ current_index = -1
    /\ shuffle_enabled = FALSE
    /\ repeat_enabled = FALSE
    /\ _shuffled = <<>>
    /\ last = NoCall
    /\ arg_paths \in SeqsUpTo(ExtPaths, MaxExt)
    /\ arg_current = None
    /\ pc = "fresh"
    /\ VideoPlayerConstructed

NextExt == LoadCall

SpecExt == InitExt /\ [][NextExt]_vars

\* ------------------------------------------------------------------------
\* SpecSort: one call load(arg_paths) on a fresh manager, the paths being
\* names with digit runs, letters of both cases and several directories
\* ------------------------------------------------------------------------
\* longest path list handed to load() by SpecSort
MaxSort == 4

InitSort ==
    /\ files = <<>>
    /\ current_index = -1
    /\ shuffle_enabled = FALSE
    /\ repeat_enabled = FALSE
    /\ _shuffled = <<>>
    /\ last = NoCall
    /\ arg_paths \in SeqsUpTo(SortPaths, MaxSort)
    /\ arg_current = None
    /\ pc = "fresh"
    /\ VideoPlayerConstructed

NextSort == LoadCall

SpecSort == InitSort /\ [][NextSort]_vars

\* ------------------------------------------------------------------------
\* main_window.py: VideoPlayer, the playback session controller
\* ------------------------------------------------------------------------
\* most single-shot timers pending at once
MaxTimers == 1
\* most media_ended signals queued at once
MaxEnds == 1
\* most single-shot timers pending at once where the engine repeats its
\* end notifications
MaxEndTimers == 2
\* most single-shot timers pending at once where requests come in quick
\* succession
MaxRapidTimers == 2

SUPPORTED_VIDEO_EXTENSIONS ==
    {Ext(<<"m", "p", "4">>), Ext(<<"m", "k", "v">>), Ext(<<"a", "v", "i">>),
     Ext(<<"m", "o", "v">>), Ext(<<"w", "m", "v">>), Ext(<<"f", "l", "v">>),
     Ext(<<"t", "s">>), Ext(<<"m", "4", "v">>), Ext(<<"3", "g", "p">>),
     Ext(<<"3", "g", "2">>), Ext(<<"m", "p", "e", "g">>), Ext(<<"m", "p", "g">>),
     Ext(<<"m", "p", "e">>), Ext(<<"r", "m">>), Ext(<<"r", "m", "v", "b">>),
     Ext(<<"v", "o", "b">>), Ext(<<"w", "e", "b", "m">>)}

\* the paths a file is opened by
OpenPaths == {PathA1, PathB2, PathF3, PathTxt, PathRelB2}
\* a video in a second directory
PathOther == "/x/File1.mp4"
\* the files present where the session has two directories to open from
DiskAcross == {PathA1, PathB2, PathTxt, PathOther}
\* the paths a file is opened by there (PathF3 names no file)
AcrossPaths == OpenPaths \cup {PathOther}

\* os.path.dirname, os.path.normpath, the extension test of the directory
\* scan and os.path.join(directory, f) on the paths that occur, computed once
DirnameTable == [p \in AcrossPaths |-> Intern(dirname(Str(p)))]
NormTable == [p \in AcrossPaths |-> Intern(normpath(Str(p)))]
\* line 507: the test the directory scan makes of a name f of os.listdir
is_scanned_video(f) == lower(splitext_ext(f)) \in SUPPORTED_VIDEO_EXTENSIONS
ScanSupportedTable ==
    [q \in DiskAtStart \cup DiskAcross |-> is_scanned_video(basename(Str(q)))]
ScanJoinTable ==
    [q \in DiskAtStart \cup DiskAcross |->
        Intern(join(dirname(Str(q)), basename(Str(q))))]

\* os.path.isfile(file_path): a relative path names a file of the Cwd
isfile(file_path) == Abs(file_path) \in disk

\* a set as a list, in some order
RECURSIVE SeqOf(_)
SeqOf(S) ==
    IF S = {} THEN <<>>
    ELSE LET x == CHOOSE y \in S : TRUE IN <<x>> \o SeqOf(S \ {x})

\* lines 504-520 of _load_file_and_directory: the supported files of the
\* directory, or the opened file alone when there is none, sorted; one
\* outcome for each order os.listdir may give the names in
ScanOf(file_path, on_disk) ==
    LET directory == DirnameTable[file_path]
        found == {ScanJoinTable[q] :
                     q \in {r \in on_disk : DirnameTable[r] = directory
                                            /\ ScanSupportedTable[r]}}
    IN  IF found = {} THEN {<<file_path>>}
        ELSE {SortByKey(order) : order \in ShuffleOutcomes(SeqOf(found))}
\* ... for every path and every set of files present, computed once
ScanTable ==
    [file_path \in AcrossPaths |->
        [on_disk \in (SUBSET DiskAtStart) \cup (SUBSET DiskAcross) |->
            ScanOf(file_path, on_disk)]]
ScanOutcomes(file_path) == ScanTable[file_path][disk]

\* list[i]: a negative i counts from the end; None for IndexError
Item(list, i) ==
    IF 0 <= i /\ i < Len(list) THEN Some(list[i + 1])
    ELSE IF -Len(list) <= i /\ i < 0 THEN Some(list[Len(list) + i + 1])
    ELSE None

\* [os.path.normpath(p) for p in list]
Normalized(list) == [i \in 1..Len(list) |-> NormTable[list[i]]]

\* a pending QTimer.singleShot(delay, callback).  idx is the index the
\* callback has captured; path is the entry the timer was started for: the
\* path _restart_current has captured, and for the callbacks that capture
\* the index alone the path that index named then, which they never read.
\* _play_at_with_reason(idx, reason) is play_at(idx)
Timer(fn, idx, path, delay) == [fn |-> fn, idx |-> idx, path |-> path, delay |-> delay]
\* the most timers pending at once: MaxEndTimers where the engine repeats
\* its end notifications (SpecEnd), MaxRapidTimers where requests come in
\* quick succession (SpecRapid), MaxTimers elsewhere
TimerCap ==
    IF pc = "ends" THEN MaxEndTimers
    ELSE IF pc = "rapid" THEN MaxRapidTimers
    ELSE MaxTimers
singleShot(t) == Len(timers) < TimerCap /\ timers' = Append(timers, t)
\* a timer expires before every timer started later with the same or a
\* longer delay
CanFire(i) == \A j \in 1..(i - 1) : timers[j].delay > timers[i].delay

_get_current_playlist ==
    IF vp_shuffle_enabled THEN shuffled_playlist ELSE directory_playlist

\* a play_at that leaves current_index alone until the engine has the media
PlayAtIndexAfterLoad(index, playlist, old) ==
    IF ~(0 <= index /\ index < Len(playlist)) \/ _is_changing_media
    THEN /\ vp_current_index' = old
         /\ UNCHANGED <<_is_changing_media, in_play_at, engine_state, engine_media>>
    ELSE \E media_ok \in BOOLEAN :
            /\ vp_current_index' = old
            /\ engine_state' = "Stopped"
            /\ IF media_ok
               THEN /\ engine_media' = playlist[index + 1]
                    /\ _is_changing_media' = TRUE
                    /\ in_play_at' = Some([index |-> index, path |-> playlist[index + 1]])
               ELSE UNCHANGED <<engine_media, _is_changing_media, in_play_at>>

\* play_at(index) up to the processEvents() call of line 769, on the list
\* playlist with current_index = old.  media_ok: media_new, parse and
\* set_media raise nothing
play_at(index, playlist, old) ==
    IF ~(0 <= index /\ index < Len(playlist)) \/ _is_changing_media
    THEN /\ vp_current_index' = old
         /\ UNCHANGED <<_is_changing_media, in_play_at, engine_state, engine_media>>
    ELSE \E media_ok \in BOOLEAN :
            /\ vp_current_index' = index
            /\ engine_state' = "Stopped"
            /\ IF media_ok
               THEN /\ engine_media' = playlist[index + 1]
                    /\ _is_changing_media' = TRUE
                    /\ in_play_at' = Some([index |-> index, path |-> playlist[index + 1]])
               ELSE UNCHANGED <<engine_media, _is_changing_media, in_play_at>>

\* play_at from the return of processEvents() to its end.  play_ok:
\* player.play() of line 777 raises nothing; otherwise the exception leaves
\* play_at through the finally clause of lines 794-795
PlayAtReturn ==
    /\ in_play_at # None
    /\ \E play_ok \in BOOLEAN :
          IF play_ok
          THEN engine_state' = "Playing" /\ raised' = "" /\ status' = "playing"
          ELSE engine_state' = engine_state /\ raised' = "Exception" /\ UNCHANGED status
    \* set_rate(self.playback_rate) of line 773
    /\ engine_rate' = playback_rate
    /\ _is_changing_media' = FALSE
    /\ in_play_at' = None
    /\ UNCHANGED <<directory_playlist, vp_current_index, vp_shuffle_enabled,
                   vp_repeat_enabled, shuffled_playlist, _ending, timers,
                   engine_media, media_ended, disk>>

\* an open that appends the scanned files to the list it finds
LoadAppending(file_path) ==
    /\ raised' = ""
    /\ IF ~isfile(file_path) \/ DirnameTable[file_path] = ""
       THEN /\ UNCHANGED <<directory_playlist, vp_current_index, vp_shuffle_enabled,
                           vp_repeat_enabled, shuffled_playlist, _is_changing_media,
                           _ending, timers, in_play_at, engine_state, engine_media,
                           media_ended, disk>>
            \* os.listdir("") raises an OSError, reported at line 510
            /\ status' = IF isfile(file_path) THEN "scan_failed" ELSE status
       ELSE \E video_files \in ScanOutcomes(file_path) :
               LET found == IndexOf(Normalized(video_files), NormTable[file_path])
                   index == IF found = None THEN 0 ELSE found[1]
               IN  /\ directory_playlist' = directory_playlist \o video_files
                   /\ vp_shuffle_enabled' = FALSE
                   /\ shuffled_playlist' =
                          IF vp_shuffle_enabled THEN <<>> ELSE shuffled_playlist
                   /\ play_at(index, video_files, index)
                   /\ UNCHANGED <<vp_repeat_enabled, _ending, timers, media_ended, disk,
                                  status>>

_load_file_and_directory(file_path) ==
    /\ raised' = ""
    /\ IF ~isfile(file_path) \/ DirnameTable[file_path] = ""
       THEN /\ UNCHANGED <<directory_playlist, vp_current_index, vp_shuffle_enabled,
                           vp_repeat_enabled, shuffled_playlist, _is_changing_media,
                           _ending, timers, in_play_at, engine_state, engine_media,
                           media_ended, disk>>
            \* os.listdir("") raises an OSError, reported at line 510
            /\ status' = IF isfile(file_path) THEN "scan_failed" ELSE status
       ELSE \E video_files \in ScanOutcomes(file_path) :
               LET found == IndexOf(Normalized(video_files), NormTable[file_path])
                   index == IF found = None THEN 0 ELSE found[1]
               IN  /\ directory_playlist' = video_files
                   /\ vp_shuffle_enabled' = FALSE
                   /\ shuffled_playlist' =
                          IF vp_shuffle_enabled THEN <<>> ELSE shuffled_playlist
                   /\ play_at(index, video_files, index)
                   /\ UNCHANGED <<vp_repeat_enabled, _ending, timers, media_ended, disk,
                                  status>>

\* play_next(): line 818 reads next_original_idx, which is bound only when
\* a next entry was found
play_next ==
    LET playlist == _get_current_playlist
        cur_path == Item(directory_playlist, vp_current_index)
        shuffled_idx == IndexOf(playlist, cur_path[1])
        next_path == playlist[shuffled_idx[1] + 2]
        next_original_idx == IndexOf(directory_playlist, next_path)
    IN  IF playlist = <<>>
        THEN raised' = "" /\ UNCHANGED timers
        ELSE IF cur_path = None
        THEN raised' = "IndexError" /\ UNCHANGED timers
        ELSE IF shuffled_idx # None /\ shuffled_idx[1] + 1 < Len(playlist)
                /\ next_original_idx # None
        THEN /\ singleShot(Timer("play_at", next_original_idx[1], next_path, 50))
             /\ raised' = ""
        ELSE raised' = "UnboundLocalError" /\ UNCHANGED timers

play_previous ==
    LET playlist == _get_current_playlist
        cur_path == Item(directory_playlist, vp_current_index)
        shuffled_idx == IndexOf(playlist, cur_path[1])
        prev_path == playlist[shuffled_idx[1]]
        prev_original_idx == IndexOf(directory_playlist, prev_path)
    IN  IF playlist = <<>>
        THEN raised' = "" /\ UNCHANGED timers
        ELSE IF cur_path = None
        THEN raised' = "IndexError" /\ UNCHANGED timers
        ELSE IF shuffled_idx # None /\ shuffled_idx[1] - 1 >= 0
                /\ prev_original_idx # None
        THEN /\ singleShot(Timer("play_at", prev_original_idx[1], prev_path, 50))
             /\ raised' = ""
        ELSE raised' = "" /\ UNCHANGED timers

\* toggle_play(): restart from a stopped engine, else pause or resume
toggle_play ==
    IF engine_state \in {"Stopped", "Ended", "Error"}
    THEN IF 0 <= vp_current_index /\ vp_current_index < Len(directory_playlist)
         THEN play_at(vp_current_index, directory_playlist, vp_current_index)
         ELSE UNCHANGED <<vp_current_index, _is_changing_media, in_play_at,
                          engine_state, engine_media>>
    ELSE /\ engine_state' =
                IF engine_state = "Playing" THEN "Paused"
                ELSE IF engine_media # "" THEN "Playing"
                ELSE engine_state
         /\ UNCHANGED <<vp_current_index, _is_changing_media, in_play_at, engine_media>>

\* stop(): self.player.stop()
stop == engine_state' = "Stopped"

_on_repeat_toggled(checked) == vp_repeat_enabled' = checked

\* _create_or_clear_shuffled_playlist() with shuffle_enabled = enabled
_create_or_clear_shuffled_playlist(enabled) ==
    LET cur_path == Item(directory_playlist, vp_current_index)
    IN  IF enabled /\ directory_playlist # <<>>
        THEN IF cur_path = None
             THEN /\ UNCHANGED shuffled_playlist
                  /\ raised' = "IndexError"
             ELSE /\ \E temp_list \in ShuffleOutcomes(
                                         RemoveFirst(directory_playlist, cur_path[1])) :
                        shuffled_playlist' = <<cur_path[1]>> \o temp_list
                  /\ raised' = ""
        ELSE /\ shuffled_playlist' = <<>>
             /\ raised' = ""

_on_shuffle_toggled(checked) ==
    /\ vp_shuffle_enabled' = checked
    /\ _create_or_clear_shuffled_playlist(checked)

\* a slot that repeats only when the current entry has no successor
OnMediaEndRepeatAtEndOnly ==
    LET playlist == _get_current_playlist
        cur_path == directory_playlist[vp_current_index + 1]
        current_playlist_idx == IndexOf(playlist, cur_path)
        next_path == playlist[current_playlist_idx[1] + 2]
        next_original_idx == IndexOf(directory_playlist, next_path)
    IN  IF \/ _is_changing_media
           \/ playlist = <<>>
           \/ ~(0 <= vp_current_index /\ vp_current_index < Len(directory_playlist))
        THEN /\ raised' = ""
             /\ UNCHANGED <<_ending, timers, engine_state>>
        ELSE IF vp_repeat_enabled
                /\ ~(current_playlist_idx # None
                     /\ current_playlist_idx[1] + 1 < Len(playlist))
        THEN /\ singleShot(Timer("_restart_current", -1, cur_path, 80))
             /\ raised' = ""
             /\ UNCHANGED <<_ending, engine_state>>
        ELSE IF _ending
        THEN /\ raised' = ""
             /\ UNCHANGED <<_ending, timers, engine_state>>
        ELSE \* _ending is set at line 686 and cleared by the finally of line 714
             /\ _ending' = FALSE
             /\ IF current_playlist_idx = None
                THEN /\ raised' = ""
                     /\ UNCHANGED <<timers, engine_state>>
                ELSE IF current_playlist_idx[1] + 1 < Len(playlist)
                THEN IF next_original_idx = None
                     THEN /\ raised' = "ValueError"
                          /\ UNCHANGED <<timers, engine_state>>
                     ELSE /\ singleShot(Timer("_end_after", next_original_idx[1], next_path, 80))
                          /\ raised' = ""
                          /\ UNCHANGED engine_state
                ELSE /\ stop
                     /\ raised' = ""
                     /\ UNCHANGED timers

\* a slot that wraps around to the first entry of the active order
OnMediaEndWrapsAround ==
    LET playlist == _get_current_playlist
        cur_path == directory_playlist[vp_current_index + 1]
        current_playlist_idx == IndexOf(playlist, cur_path)
        next_path == playlist[current_playlist_idx[1] + 2]
        next_original_idx == IndexOf(directory_playlist, next_path)
    IN  IF \/ _is_changing_media
           \/ playlist = <<>>
           \/ ~(0 <= vp_current_index /\ vp_current_index < Len(directory_playlist))
        THEN /\ raised' = ""
             /\ UNCHANGED <<_ending, timers, engine_state>>
        ELSE IF vp_repeat_enabled
        THEN /\ singleShot(Timer("_restart_current", -1, cur_path, 80))
             /\ raised' = ""
             /\ UNCHANGED <<_ending, engine_state>>
        ELSE IF _ending
        THEN /\ raised' = ""
             /\ UNCHANGED <<_ending, timers, engine_state>>
        ELSE \* _ending is set at line 686 and cleared by the finally of line 714
             /\ _ending' = FALSE
             /\ IF current_playlist_idx = None
                THEN /\ raised' = ""
                     /\ UNCHANGED <<timers, engine_state>>
                ELSE IF current_playlist_idx[1] + 1 < Len(playlist)
                THEN IF next_original_idx = None
                     THEN /\ raised' = "ValueError"
                          /\ UNCHANGED <<timers, engine_state>>
                     ELSE /\ singleShot(Timer("_end_after", next_original_idx[1], next_path, 80))
                          /\ raised' = ""
                          /\ UNCHANGED engine_state
                ELSE /\ singleShot(Timer("_end_after",
                                           IndexOf(directory_playlist, playlist[1])[1],
                                           playlist[1], 80))
                     /\ raised' = ""
                     /\ UNCHANGED engine_state

\* a slot that plays the last entry again when it has ended
OnMediaEndReplaysLast ==
    LET playlist == _get_current_playlist
        cur_path == directory_playlist[vp_current_index + 1]
        current_playlist_idx == IndexOf(playlist, cur_path)
        next_path == playlist[current_playlist_idx[1] + 2]
        next_original_idx == IndexOf(directory_playlist, next_path)
    IN  IF \/ _is_changing_media
           \/ playlist = <<>>
           \/ ~(0 <= vp_current_index /\ vp_current_index < Len(directory_playlist))
        THEN /\ raised' = ""
             /\ UNCHANGED <<_ending, timers, engine_state>>
        ELSE IF vp_repeat_enabled
        THEN /\ singleShot(Timer("_restart_current", -1, cur_path, 80))
             /\ raised' = ""
             /\ UNCHANGED <<_ending, engine_state>>
        ELSE IF _ending
        THEN /\ raised' = ""
             /\ UNCHANGED <<_ending, timers, engine_state>>
        ELSE \* _ending is set at line 686 and cleared by the finally of line 714
             /\ _ending' = FALSE
             /\ IF current_playlist_idx = None
                THEN /\ raised' = ""
                     /\ UNCHANGED <<timers, engine_state>>
                ELSE IF current_playlist_idx[1] + 1 < Len(playlist)
                THEN IF next_original_idx = None
                     THEN /\ raised' = "ValueError"
                          /\ UNCHANGED <<timers, engine_state>>
                     ELSE /\ singleShot(Timer("_end_after", next_original_idx[1], next_path, 80))
                          /\ raised' = ""
                          /\ UNCHANGED engine_state
                ELSE /\ singleShot(Timer("_end_after", vp_current_index, cur_path, 80))
                     /\ raised' = ""
                     /\ UNCHANGED engine_state

\* _on_media_end(): the slot of the media_ended signal
_on_media_end ==
    LET playlist == _get_current_playlist
        cur_path == directory_playlist[vp_current_index + 1]
        current_playlist_idx == IndexOf(playlist, cur_path)
        next_path == playlist[current_playlist_idx[1] + 2]
        next_original_idx == IndexOf(directory_playlist, next_path)
    IN  IF \/ _is_changing_media
           \/ playlist = <<>>
           \/ ~(0 <= vp_current_index /\ vp_current_index < Len(directory_playlist))
        THEN /\ raised' = ""
             /\ UNCHANGED <<_ending, timers, engine_state>>
        ELSE IF vp_repeat_enabled
        THEN /\ singleShot(Timer("_restart_current", -1, cur_path, 80))
             /\ raised' = ""
             /\ UNCHANGED <<_ending, engine_state>>
        ELSE IF _ending
        THEN /\ raised' = ""
             /\ UNCHANGED <<_ending, timers, engine_state>>
        ELSE \* _ending is set at line 686 and cleared by the finally of line 714
             /\ _ending' = FALSE
             /\ IF current_playlist_idx = None
                THEN /\ raised' = ""
                     /\ UNCHANGED <<timers, engine_state>>
                ELSE IF current_playlist_idx[1] + 1 < Len(playlist)
                THEN IF next_original_idx = None
                     THEN /\ raised' = "ValueError"
                          /\ UNCHANGED <<timers, engine_state>>
                     ELSE /\ singleShot(Timer("_end_after", next_original_idx[1], next_path, 80))
                          /\ raised' = ""
                          /\ UNCHANGED engine_state
                ELSE /\ stop
                     /\ raised' = ""
                     /\ UNCHANGED timers

\* a triage move that overwrites a file found at the destination
MoveOverwriting(outcome) ==
    IF ~(0 <= vp_current_index /\ vp_current_index < Len(directory_playlist))
    THEN /\ raised' = ""
         /\ UNCHANGED <<directory_playlist, shuffled_playlist, timers, engine_state, disk,
                        status>>
    ELSE LET index_to_remove == vp_current_index
             current_file_path == directory_playlist[index_to_remove + 1]
             cur_in_playlist == IndexOf(_get_current_playlist, current_file_path)
             next_path ==
                 IF vp_shuffle_enabled /\ cur_in_playlist # None
                    /\ cur_in_playlist[1] + 1 < Len(_get_current_playlist)
                 THEN Some(_get_current_playlist[cur_in_playlist[1] + 2])
                 ELSE None
             popped == Pop(directory_playlist, index_to_remove)
             next_idx ==
                 IF vp_shuffle_enabled /\ next_path # None
                 THEN IndexOf(popped, next_path[1])
                 ELSE IF ~vp_shuffle_enabled /\ index_to_remove < Len(popped)
                 THEN Some(index_to_remove)
                 ELSE None
         IN  /\ stop
             /\ raised' = ""
             /\ IF outcome \in {"moved", "exists"}
                THEN /\ current_file_path \in disk
                     /\ disk' = disk \ {current_file_path}
                     /\ status' = "moved"
                     /\ directory_playlist' = popped
                     /\ shuffled_playlist' =
                            IF vp_shuffle_enabled
                            THEN RemoveFirst(shuffled_playlist, current_file_path)
                            ELSE shuffled_playlist
                     /\ IF popped = <<>> \/ next_idx = None
                        THEN UNCHANGED timers
                        ELSE singleShot(Timer("play_at", next_idx[1],
                                              popped[next_idx[1] + 1], 50))
                ELSE /\ status' = IF outcome = "exists" THEN "move_exists" ELSE "move_error"
                     /\ UNCHANGED <<directory_playlist, shuffled_playlist, timers, disk>>

\* a triage move that updates the lists whatever the move on disk did
MoveCommitsFirst(outcome) ==
    IF ~(0 <= vp_current_index /\ vp_current_index < Len(directory_playlist))
    THEN /\ raised' = ""
         /\ UNCHANGED <<directory_playlist, shuffled_playlist, timers, engine_state, disk,
                        status>>
    ELSE LET index_to_remove == vp_current_index
             current_file_path == directory_playlist[index_to_remove + 1]
             cur_in_playlist == IndexOf(_get_current_playlist, current_file_path)
             next_path ==
                 IF vp_shuffle_enabled /\ cur_in_playlist # None
                    /\ cur_in_playlist[1] + 1 < Len(_get_current_playlist)
                 THEN Some(_get_current_playlist[cur_in_playlist[1] + 2])
                 ELSE None
             popped == Pop(directory_playlist, index_to_remove)
             next_idx ==
                 IF vp_shuffle_enabled /\ next_path # None
                 THEN IndexOf(popped, next_path[1])
                 ELSE IF ~vp_shuffle_enabled /\ index_to_remove < Len(popped)
                 THEN Some(index_to_remove)
                 ELSE None
         IN  /\ stop
             /\ raised' = ""
             /\ IF outcome = "moved"
                THEN /\ current_file_path \in disk
                     /\ disk' = disk \ {current_file_path}
                     /\ status' = "moved"
                     /\ directory_playlist' = popped
                     /\ shuffled_playlist' =
                            IF vp_shuffle_enabled
                            THEN RemoveFirst(shuffled_playlist, current_file_path)
                            ELSE shuffled_playlist
                     /\ IF popped = <<>> \/ next_idx = None
                        THEN UNCHANGED timers
                        ELSE singleShot(Timer("play_at", next_idx[1],
                                              popped[next_idx[1] + 1], 50))
                ELSE /\ status' = IF outcome = "exists" THEN "move_exists" ELSE "move_error"
                     /\ directory_playlist' = popped
                     /\ UNCHANGED <<shuffled_playlist, timers, disk>>

\* a triage move that plays the entry after the one that slid into the slot
MovePlaysAfterSlot(outcome) ==
    IF ~(0 <= vp_current_index /\ vp_current_index < Len(directory_playlist))
    THEN /\ raised' = ""
         /\ UNCHANGED <<directory_playlist, shuffled_playlist, timers, engine_state, disk,
                        status>>
    ELSE LET index_to_remove == vp_current_index
             current_file_path == directory_playlist[index_to_remove + 1]
             cur_in_playlist == IndexOf(_get_current_playlist, current_file_path)
             next_path ==
                 IF vp_shuffle_enabled /\ cur_in_playlist # None
                    /\ cur_in_playlist[1] + 1 < Len(_get_current_playlist)
                 THEN Some(_get_current_playlist[cur_in_playlist[1] + 2])
                 ELSE None
             popped == Pop(directory_playlist, index_to_remove)
             next_idx ==
                 IF vp_shuffle_enabled /\ next_path # None
                 THEN IndexOf(popped, next_path[1])
                 ELSE IF ~vp_shuffle_enabled /\ index_to_remove < Len(popped)
                 THEN Some(index_to_remove + 1)
                 ELSE None
         IN  /\ stop
             /\ raised' = ""
             /\ IF outcome = "moved"
                THEN /\ current_file_path \in disk
                     /\ disk' = disk \ {current_file_path}
                     /\ status' = "moved"
                     /\ directory_playlist' = popped
                     /\ shuffled_playlist' =
                            IF vp_shuffle_enabled
                            THEN RemoveFirst(shuffled_playlist, current_file_path)
                            ELSE shuffled_playlist
                     /\ IF popped = <<>> \/ next_idx = None
                        THEN UNCHANGED timers
                        ELSE singleShot(Timer("play_at", next_idx[1],
                                              popped[next_idx[1] + 1], 50))
                ELSE /\ status' = IF outcome = "exists" THEN "move_exists" ELSE "move_error"
                     /\ UNCHANGED <<directory_playlist, shuffled_playlist, timers, disk>>

\* a triage move that plays the vacated slot also with shuffle on
MovePlaysSlotInShuffle(outcome) ==
    IF ~(0 <= vp_current_index /\ vp_current_index < Len(directory_playlist))
    THEN /\ raised' = ""
         /\ UNCHANGED <<directory_playlist, shuffled_playlist, timers, engine_state, disk,
                        status>>
    ELSE LET index_to_remove == vp_current_index
             current_file_path == directory_playlist[index_to_remove + 1]
             cur_in_playlist == IndexOf(_get_current_playlist, current_file_path)
             next_path ==
                 IF vp_shuffle_enabled /\ cur_in_playlist # None
                    /\ cur_in_playlist[1] + 1 < Len(_get_current_playlist)
                 THEN Some(_get_current_playlist[cur_in_playlist[1] + 2])
                 ELSE None
             popped == Pop(directory_playlist, index_to_remove)
             next_idx ==
                 IF vp_shuffle_enabled /\ next_path # None
                 THEN Some(index_to_remove)
                 ELSE IF ~vp_shuffle_enabled /\ index_to_remove < Len(popped)
                 THEN Some(index_to_remove)
                 ELSE None
         IN  /\ stop
             /\ raised' = ""
             /\ IF outcome = "moved"
                THEN /\ current_file_path \in disk
                     /\ disk' = disk \ {current_file_path}
                     /\ status' = "moved"
                     /\ directory_playlist' = popped
                     /\ shuffled_playlist' =
                            IF vp_shuffle_enabled
                            THEN RemoveFirst(shuffled_playlist, current_file_path)
                            ELSE shuffled_playlist
                     /\ IF popped = <<>> \/ next_idx = None
                        THEN UNCHANGED timers
                        ELSE singleShot(Timer("play_at", next_idx[1],
                                              popped[next_idx[1] + 1], 50))
                ELSE /\ status' = IF outcome = "exists" THEN "move_exists" ELSE "move_error"
                     /\ UNCHANGED <<directory_playlist, shuffled_playlist, timers, disk>>

\* _move_current_file_and_play_next(subfolder_name).  outcome: the target
\* exists already, shutil.move raises, or the file is moved
_move_current_file_and_play_next(outcome) ==
    IF ~(0 <= vp_current_index /\ vp_current_index < Len(directory_playlist))
    THEN /\ raised' = ""
         /\ UNCHANGED <<directory_playlist, shuffled_playlist, timers, engine_state, disk,
                        status>>
    ELSE LET index_to_remove == vp_current_index
             current_file_path == directory_playlist[index_to_remove + 1]
             cur_in_playlist == IndexOf(_get_current_playlist, current_file_path)
             next_path ==
                 IF vp_shuffle_enabled /\ cur_in_playlist # None
                    /\ cur_in_playlist[1] + 1 < Len(_get_current_playlist)
                 THEN Some(_get_current_playlist[cur_in_playlist[1] + 2])
                 ELSE None
             popped == Pop(directory_playlist, index_to_remove)
             next_idx ==
                 IF vp_shuffle_enabled /\ next_path # None
                 THEN IndexOf(popped, next_path[1])
                 ELSE IF ~vp_shuffle_enabled /\ index_to_remove < Len(popped)
                 THEN Some(index_to_remove)
                 ELSE None
         IN  /\ stop
             /\ raised' = ""
             /\ IF outcome = "moved"
                THEN /\ current_file_path \in disk
                     /\ disk' = disk \ {current_file_path}
                     /\ status' = "moved"
                     /\ directory_playlist' = popped
                     /\ shuffled_playlist' =
                            IF vp_shuffle_enabled
                            THEN RemoveFirst(shuffled_playlist, current_file_path)
                            ELSE shuffled_playlist
                     /\ IF popped = <<>> \/ next_idx = None
                        THEN UNCHANGED timers
                        ELSE singleShot(Timer("play_at", next_idx[1],
                                              popped[next_idx[1] + 1], 50))
                ELSE /\ status' = IF outcome = "exists" THEN "move_exists" ELSE "move_error"
                     /\ UNCHANGED <<directory_playlist, shuffled_playlist, timers, disk>>

\* ------------------------------------------------------------------------
\* SpecVP: the VideoPlayer under any sequence of events.  Every action is
\* one event the UI thread handles; while play_at is inside processEvents()
\* the events are handled nested in it.
\* ------------------------------------------------------------------------
InitVP ==
    /\ files = <<>>
    /\ current_index = -1
    /\ shuffle_enabled = FALSE
    /\ repeat_enabled = FALSE
    /\ _shuffled = <<>>
    /\ last = NoCall
    /\ arg_paths = <<>>
    /\ arg_current = None
    /\ pc = "player"
    /\ VideoPlayerConstructed

\* a file is opened (dropped on the window or picked in the dialog)
OpenFile ==
    /\ \E file_path \in OpenPaths : _load_file_and_directory(file_path)
    /\ UNCHANGED <<pmvars, callvars>>
    /\ UNCHANGED <<playback_rate, engine_rate, seek>>

PlayAtResumes ==
    /\ PlayAtReturn
    /\ UNCHANGED <<pmvars, callvars>>
    /\ UNCHANGED <<playback_rate, seek>>

PlayNext ==
    /\ play_next
    /\ UNCHANGED <<directory_playlist, vp_current_index, vp_shuffle_enabled,
                   vp_repeat_enabled, shuffled_playlist, _is_changing_media,
                   _ending, in_play_at, engine_state, engine_media, media_ended, disk>>
    /\ UNCHANGED <<pmvars, callvars, status>>
    /\ UNCHANGED <<playback_rate, engine_rate, seek>>

PlayPrevious ==
    /\ play_previous
    /\ UNCHANGED <<directory_playlist, vp_current_index, vp_shuffle_enabled,
                   vp_repeat_enabled, shuffled_playlist, _is_changing_media,
                   _ending, in_play_at, engine_state, engine_media, media_ended, disk>>
    /\ UNCHANGED <<pmvars, callvars, status>>
    /\ UNCHANGED <<playback_rate, engine_rate, seek>>

TogglePlay ==
    /\ toggle_play
    /\ raised' = ""
    /\ UNCHANGED <<directory_playlist, vp_shuffle_enabled, vp_repeat_enabled,
                   shuffled_playlist, _ending, timers, media_ended, disk>>
    /\ UNCHANGED <<pmvars, callvars, status>>
    /\ UNCHANGED <<playback_rate, engine_rate, seek>>

Stop ==
    /\ stop
    /\ raised' = ""
    /\ UNCHANGED <<directory_playlist, vp_current_index, vp_shuffle_enabled,
                   vp_repeat_enabled, shuffled_playlist, _is_changing_media,
                   _ending, timers, in_play_at, engine_media, media_ended, disk>>
    /\ UNCHANGED <<pmvars, callvars, status>>
    /\ UNCHANGED <<playback_rate, engine_rate, seek>>

\* btn_repeat.toggled: the button goes to the other state
RepeatToggled ==
    /\ _on_repeat_toggled(~vp_repeat_enabled)
    /\ raised' = ""
    /\ UNCHANGED <<directory_playlist, vp_current_index, vp_shuffle_enabled,
                   shuffled_playlist, _is_changing_media, _ending, timers,
                   in_play_at, engine_state, engine_media, media_ended, disk>>
    /\ UNCHANGED <<pmvars, callvars, status>>
    /\ UNCHANGED <<playback_rate, engine_rate, seek>>

\* btn_shuffle.toggled: the button goes to the other state
ShuffleToggled ==
    /\ _on_shuffle_toggled(~vp_shuffle_enabled)
    /\ UNCHANGED <<directory_playlist, vp_current_index, vp_repeat_enabled,
                   _is_changing_media, _ending, timers, in_play_at,
                   engine_state, engine_media, media_ended, disk>>
    /\ UNCHANGED <<pmvars, callvars, status>>
    /\ UNCHANGED <<playback_rate, engine_rate, seek>>

\* _on_vlc_end (lines 595-597): the engine reaches the end of the media it
\* plays and the media_ended signal is queued for the UI thread
VlcEnd ==
    /\ engine_state = "Playing"
    /\ media_ended < MaxEnds
    /\ engine_state' = "Ended"
    /\ media_ended' = media_ended + 1
    /\ UNCHANGED <<directory_playlist, vp_current_index, vp_shuffle_enabled,
                   vp_repeat_enabled, shuffled_playlist, _is_changing_media,
                   _ending, timers, in_play_at, engine_media, disk, raised>>
    /\ UNCHANGED <<pmvars, callvars, status>>
    /\ UNCHANGED <<playback_rate, engine_rate, seek>>

\* the UI thread delivers a queued media_ended signal
MediaEnded ==
    /\ media_ended > 0
    /\ media_ended' = media_ended - 1
    /\ _on_media_end
    /\ UNCHANGED <<directory_playlist, vp_current_index, vp_shuffle_enabled,
                   vp_repeat_enabled, shuffled_playlist, _is_changing_media,
                   in_play_at, engine_media, disk>>
    /\ UNCHANGED <<pmvars, callvars, status>>
    /\ UNCHANGED <<playback_rate, engine_rate, seek>>

\* a timer started by play_next, play_previous or the triage move expires:
\* play_at(idx), directly or through _play_at_with_reason
TimerPlayAt ==
    /\ \E i \in 1..Len(timers) :
          /\ CanFire(i)
          /\ timers[i].fn = "play_at"
          /\ timers' = Pop(timers, i - 1)
          /\ play_at(timers[i].idx, directory_playlist, vp_current_index)
    /\ raised' = ""
    /\ UNCHANGED <<directory_playlist, vp_shuffle_enabled, vp_repeat_enabled,
                   shuffled_playlist, _ending, media_ended, disk>>
    /\ UNCHANGED <<pmvars, callvars, status>>
    /\ UNCHANGED <<playback_rate, engine_rate, seek>>

\* the timer of line 706 expires: _end_after(idx)
TimerEndAfter ==
    /\ \E i \in 1..Len(timers) :
          /\ CanFire(i)
          /\ timers[i].fn = "_end_after"
          /\ timers' = Pop(timers, i - 1)
          /\ play_at(timers[i].idx, directory_playlist, vp_current_index)
    /\ _ending' = FALSE
    /\ raised' = ""
    /\ UNCHANGED <<directory_playlist, vp_shuffle_enabled, vp_repeat_enabled,
                   shuffled_playlist, media_ended, disk>>
    /\ UNCHANGED <<pmvars, callvars, status>>
    /\ UNCHANGED <<playback_rate, engine_rate, seek>>

\* the timer of line 675 expires: _restart_current() sets the media of the
\* path it captured and plays it, without stop() and without the guard
TimerRestartCurrent ==
    /\ \E i \in 1..Len(timers) :
          /\ CanFire(i)
          /\ timers[i].fn = "_restart_current"
          /\ timers' = Pop(timers, i - 1)
          /\ engine_media' = timers[i].path
    /\ engine_state' = "Playing"
    /\ raised' = ""
    /\ UNCHANGED <<directory_playlist, vp_current_index, vp_shuffle_enabled,
                   vp_repeat_enabled, shuffled_playlist, _is_changing_media,
                   _ending, in_play_at, media_ended, disk>>
    /\ UNCHANGED <<pmvars, callvars, status>>
    /\ UNCHANGED <<playback_rate, engine_rate, seek>>

\* the triage key: the current file is moved to a subfolder
MoveCurrentFile ==
    /\ \E outcome \in {"moved", "exists", "error"} :
          _move_current_file_and_play_next(outcome)
    /\ UNCHANGED <<vp_current_index, vp_shuffle_enabled, vp_repeat_enabled,
                   _is_changing_media, _ending, in_play_at, engine_media, media_ended>>
    /\ UNCHANGED <<pmvars, callvars>>
    /\ UNCHANGED <<playback_rate, engine_rate, seek>>

NextVP ==
    \/ OpenFile \/ PlayAtResumes \/ PlayNext \/ PlayPrevious \/ TogglePlay \/ Stop
    \/ RepeatToggled \/ ShuffleToggled \/ VlcEnd \/ MediaEnded
    \/ TimerPlayAt \/ TimerEndAfter \/ TimerRestartCurrent \/ MoveCurrentFile

SpecVP == InitVP /\ [][NextVP]_vars

\* ------------------------------------------------------------------------
\* SpecEnd: the player with an engine that may report the end of one media
\* more than once (MediaPlayerEndReached is delivered on the engine's
\* thread and queued for the UI thread each time)
\* ------------------------------------------------------------------------
InitEnd ==
    /\ files = <<>>
    /\ current_index = -1
    /\ shuffle_enabled = FALSE
    /\ repeat_enabled = FALSE
    /\ _shuffled = <<>>
    /\ last = NoCall
    /\ arg_paths = <<>>
    /\ arg_current = None
    /\ pc = "ends"
    /\ VideoPlayerConstructed

\* _on_vlc_end once more for the media that has ended already
VlcEndRepeated ==
    /\ engine_state = "Ended"
    /\ media_ended < MaxEnds
    /\ media_ended' = media_ended + 1
    /\ UNCHANGED <<directory_playlist, vp_current_index, vp_shuffle_enabled,
                   vp_repeat_enabled, shuffled_playlist, _is_changing_media,
                   _ending, timers, in_play_at, engine_state, engine_media, disk, raised>>
    /\ UNCHANGED <<pmvars, callvars, status>>
    /\ UNCHANGED <<playback_rate, engine_rate, seek>>

NextEnd ==
    \/ OpenFile \/ PlayAtResumes \/ RepeatToggled \/ ShuffleToggled
    \/ VlcEnd \/ VlcEndRepeated \/ MediaEnded
    \/ TimerEndAfter \/ TimerRestartCurrent

SpecEnd == InitEnd /\ [][NextEnd]_vars

\* ------------------------------------------------------------------------
\* SpecRapid: the player with next, previous and the triage move requested
\* again before the timer of the request before has expired
\* ------------------------------------------------------------------------
InitRapid ==
    /\ files = <<>>
    /\ current_index = -1
    /\ shuffle_enabled = FALSE
    /\ repeat_enabled = FALSE
    /\ _shuffled = <<>>
    /\ last = NoCall
    /\ arg_paths = <<>>
    /\ arg_current = None
    /\ pc = "rapid"
    /\ VideoPlayerConstructed

NextRapid ==
    \/ OpenFile \/ PlayAtResumes \/ PlayNext \/ PlayPrevious
    \/ TimerPlayAt \/ MoveCurrentFile

SpecRapid == InitRapid /\ [][NextRapid]_vars

\* ------------------------------------------------------------------------
\* SpecOpen: the player with files in two directories to open, between
\* navigation, the shuffle button and triage moves
\* ------------------------------------------------------------------------
InitOpen ==
    /\ files = <<>>
    /\ current_index = -1
    /\ shuffle_enabled = FALSE
    /\ repeat_enabled = FALSE
    /\ _shuffled = <<>>
    /\ last = NoCall
    /\ arg_paths = <<>>
    /\ arg_current = None
    /\ pc = "open"
    /\ directory_playlist = <<>>
    /\ vp_current_index = -1
    /\ vp_shuffle_enabled = FALSE
    /\ vp_repeat_enabled = FALSE
    /\ shuffled_playlist = <<>>
    /\ _is_changing_media = FALSE
    /\ _ending = FALSE
    /\ timers = <<>>
    /\ in_play_at = None
    /\ engine_state = "NothingSpecial"
    /\ engine_media = ""
    /\ media_ended = 0
    /\ disk = DiskAcross
    /\ raised = ""
    /\ status = "ready"
    /\ playback_rate = 100
    /\ engine_rate = 100
    /\ seek = NoSeek

\* a file of either directory is opened
OpenFileAcross ==
    /\ \E file_path \in AcrossPaths : _load_file_and_directory(file_path)
    /\ UNCHANGED <<pmvars, callvars>>
    /\ UNCHANGED <<playback_rate, engine_rate, seek>>

NextOpen ==
    \/ OpenFileAcross \/ PlayAtResumes \/ ShuffleToggled
    \/ PlayNext \/ TimerPlayAt \/ MoveCurrentFile

SpecOpen == InitOpen /\ [][NextOpen]_vars

\* ------------------------------------------------------------------------
\* SpecAuto: a session is brought to some entry by the user (pc = "setup")
\* and then left to itself with repeat off (pc = "auto"): the engine ends
\* each media it plays and the event loop delivers every queued signal and
\* every expired timer
\* ------------------------------------------------------------------------
InitAuto ==
    /\ files = <<>>
    /\ current_index = -1
    /\ shuffle_enabled = FALSE
    /\ repeat_enabled = FALSE
    /\ _shuffled = <<>>
    /\ last = NoCall
    /\ arg_paths = <<>>
    /\ arg_current = None
    /\ pc = "setup"
    /\ VideoPlayerConstructed

\* what the user does, and what follows from it, before the session is
\* left to itself
SetupOpenFile == pc = "setup" /\ OpenFile
SetupPlayAtResumes == pc = "setup" /\ PlayAtResumes
SetupShuffleToggled == pc = "setup" /\ ShuffleToggled
SetupPlayNext == pc = "setup" /\ PlayNext
SetupPlayPrevious == pc = "setup" /\ PlayPrevious
SetupTimerPlayAt == pc = "setup" /\ TimerPlayAt

\* the user's last input: an entry is playing and nothing is pending
LeftAlone ==
    /\ pc = "setup"
    /\ engine_state = "Playing"
    /\ timers = <<>>
    /\ in_play_at = None
    /\ media_ended = 0
    /\ pc' = "auto"
    /\ UNCHANGED <<files, current_index, shuffle_enabled, repeat_enabled, _shuffled,
                   last, arg_paths, arg_current>>
    /\ UNCHANGED vpvars

\* the engine reaches the end of the media and reports it (lines 595-597)
AutoVlcEnd == pc = "auto" /\ VlcEnd
\* the media_ended signal reaches its slot
AutoMediaEnded == pc = "auto" /\ MediaEnded
\* the 80 ms timer of line 706 expires
AutoTimerEndAfter == pc = "auto" /\ TimerEndAfter
\* processEvents() returns into play_at
AutoPlayAtResumes == pc = "auto" /\ PlayAtResumes

NextAuto ==
    \/ SetupOpenFile \/ SetupPlayAtResumes \/ SetupShuffleToggled
    \/ SetupPlayNext \/ SetupPlayPrevious \/ SetupTimerPlayAt
    \/ LeftAlone
    \/ AutoVlcEnd \/ AutoMediaEnded \/ AutoTimerEndAfter \/ AutoPlayAtResumes

\* the Qt event loop runs every slot whose signal is queued and every
\* callback whose timer has expired, processEvents() returns, and the engine
\* plays each media to its end
SpecAuto ==
    /\ InitAuto /\ [][NextAuto]_vars
    /\ WF_vars(AutoVlcEnd) /\ WF_vars(AutoMediaEnded)
    /\ WF_vars(AutoTimerEndAfter) /\ WF_vars(AutoPlayAtResumes)

\* ------------------------------------------------------------------------
\* SpecSeek: seek_by(delta_ms) for what the engine may report
\* ------------------------------------------------------------------------
SEEK_SHORT_MS == 10000
SEEK_LONG_MS == 60000

\* player.get_time(): -1 for an unknown position
SeekTimes == {-1, 0, 500, 5000, 9500, 60500, 65000, 69500, 70000, 75000}
\* player.get_length(): -1 or 0 for an unknown length
SeekLengths == {-1, 0, 500, 1000, 5000, 10500, 70000}
\* the deltas of the arrow keys and of the keypad keys 4 and 1
SeekDeltas == {-SEEK_LONG_MS, -SEEK_SHORT_MS, SEEK_SHORT_MS, SEEK_LONG_MS}

MaxOf(a, b) == IF a >= b THEN a ELSE b
MinOf(a, b) == IF a <= b THEN a ELSE b

\* a seek_by that does not hold a forward seek back from the end
SeekTargetNoEndThreshold(t, length, delta_ms) ==
    IF t = -1 \/ length <= 0 THEN None
    ELSE Some(MaxOf(MinOf(MaxOf(0, t + delta_ms), length - 1000), 0))

\* seek_by(delta_ms) with get_time() = t and get_length() = length: the
\* argument of set_time, None when set_time is not called
seek_by(t, length, delta_ms) ==
    IF t = -1 \/ length <= 0 THEN None
    ELSE LET new_t == MaxOf(0, t + delta_ms)
             end_threshold == MaxOf(0, length - 10000)
             held == IF delta_ms > 0 /\ length > 0 /\ new_t > end_threshold
                     THEN end_threshold ELSE new_t
         IN  Some(MaxOf(MinOf(held, length - 1000), 0))

InitSeek ==
    /\ files = <<>>
    /\ current_index = -1
    /\ shuffle_enabled = FALSE
    /\ repeat_enabled = FALSE
    /\ _shuffled = <<>>
    /\ last = NoCall
    /\ arg_paths = <<>>
    /\ arg_current = None
    /\ pc = "seek"
    /\ VideoPlayerConstructed

SeekBy ==
    /\ \E t \in SeekTimes, length \in SeekLengths, delta_ms \in SeekDeltas :
          seek' = [t |-> t, length |-> length, delta |-> delta_ms,
                   set_time |-> seek_by(t, length, delta_ms)]
    /\ UNCHANGED <<directory_playlist, vp_current_index, vp_shuffle_enabled,
                   vp_repeat_enabled, shuffled_playlist, _is_changing_media,
                   _ending, timers, in_play_at, engine_state, engine_media,
                   media_ended, disk, raised, status, playback_rate, engine_rate>>
    /\ UNCHANGED <<pmvars, callvars>>

NextSeek == SeekBy

SpecSeek == InitSeek /\ [][NextSeek]_vars

\* ------------------------------------------------------------------------
\* SpecRate: the rate keys, and files opened in between
\* ------------------------------------------------------------------------
\* self.playback_rate_min, self.playback_rate_max and the step of the
\* keys C and X (0.25, 4.0, 0.1), in hundredths
playback_rate_min == 25
playback_rate_max == 400
RateStep == 10

\* a rate change that stores the sum as it is
ChangeRateUnclamped(delta) ==
    /\ engine_rate' = MaxOf(playback_rate_min, MinOf(playback_rate_max, playback_rate + delta))
    /\ playback_rate' = playback_rate + delta

\* _change_playback_rate(delta)
_change_playback_rate(delta) ==
    LET new_rate == MaxOf(playback_rate_min, MinOf(playback_rate_max, playback_rate + delta))
    IN  /\ engine_rate' = new_rate
        /\ playback_rate' = new_rate

InitRate ==
    /\ files = <<>>
    /\ current_index = -1
    /\ shuffle_enabled = FALSE
    /\ repeat_enabled = FALSE
    /\ _shuffled = <<>>
    /\ last = NoCall
    /\ arg_paths = <<>>
    /\ arg_current = None
    /\ pc = "rate"
    /\ VideoPlayerConstructed

\* the key C or X
ChangeRate ==
    /\ \E delta \in {RateStep, -RateStep} : _change_playback_rate(delta)
    /\ raised' = ""
    /\ UNCHANGED <<directory_playlist, vp_current_index, vp_shuffle_enabled,
                   vp_repeat_enabled, shuffled_playlist, _is_changing_media,
                   _ending, timers, in_play_at, engine_state, engine_media,
                   media_ended, disk, status, seek>>
    /\ UNCHANGED <<pmvars, callvars>>

NextRate == ChangeRate \/ OpenFile \/ PlayAtResumes

SpecRate == InitRate /\ [][NextRate]_vars

\* ------------------------------------------------------------------------
\* Vocabulary of the properties
\* ------------------------------------------------------------------------
Range(list) == {list[i] : i \in 1..Len(list)}
Count(list, x) == Cardinality({i \in 1..Len(list) : list[i] = x})
Distinct(list) == \A i, j \in 1..Len(list) : i # j => list[i] # list[j]
\* same entries, each as often
IsPermutationOf(a, b) ==
    Len(a) = Len(b) /\ \A x \in Range(a) \cup Range(b) : Count(a, x) = Count(b, x)
\* no entry's key is less than the key of an entry before it
IsSortedByKey(list) ==
    \A i, j \in 1..Len(list) :
        i < j => ~KeyLess(windows_logical_key(Str(list[j])), windows_logical_key(Str(list[i])))
ValidIndex == 0 <= current_index /\ current_index < Len(files)
\* the shuffle order is what next_index and previous_index walk
ShuffleActive == shuffle_enabled /\ _shuffled # <<>>

\* ------------------------------------------------------------------------
\* C1  In every state reachable by load, set_shuffle, set_repeat and remove
\*     (any arguments, out-of-range remove indices included),
\*     -1 <= current_index < len(files), and current_index = -1 whenever
\*     files is empty.
\* ------------------------------------------------------------------------
C1_IndexInRange ==
    /\ -1 <= current_index
    /\ current_index < Len(files)
    /\ (files = <<>> => current_index = -1)

\* the current entry was the last of the list and has just been removed
C1_Witness ==
    /\ last.op = "remove"
    /\ last.index = last.pre_ci
    /\ files # <<>>
    /\ last.index = Len(files)
    /\ current_index = Len(files) - 1

\* ------------------------------------------------------------------------
\* C2  VideoPlayer: in every state reachable by open-file, play_at, next,
\* previous, repeat/shuffle toggle, end-of-media and triage-move events,
\* -1 <= current_index < len(directory_playlist), and current_index is -1
\* when the playlist is empty; also right after a triage move that removed
\* the last entry of the list or its only entry.
\* The code pops the moved entry at line 1304 and leaves current_index as
\* it is, so this does not hold of SpecVP.
\* ------------------------------------------------------------------------
C2_PlayerIndexInRange ==
    /\ -1 <= vp_current_index
    /\ vp_current_index < Len(directory_playlist)
    /\ (directory_playlist = <<>> => vp_current_index = -1)

\* ------------------------------------------------------------------------
\* C3  Immediately after set_shuffle(True) on a playlist of N >= 1 entries
\*     with a valid current_index, the active order starts with the
\*     current path and holds exactly the set of entries of files, for
\*     every outcome of the random shuffle.
\* ------------------------------------------------------------------------
C3_ShufflePinsCurrent ==
    (last.op = "set_shuffle" /\ last.enabled /\ files # <<>> /\ ValidIndex)
        => /\ _shuffled # <<>>
           /\ current_playlist = _shuffled
           /\ current_playlist[1] = current_path
           /\ Range(current_playlist) = Range(files)

\* shuffled with the middle of three entries current, the other two swapped
C3_Witness ==
    /\ last.op = "set_shuffle" /\ last.enabled
    /\ Len(files) = 3 /\ Distinct(files)
    /\ current_index = 1
    /\ _shuffled = <<files[2], files[3], files[1]>>

\* ------------------------------------------------------------------------
\* C4  Whenever repeat_enabled is true and there is a current entry,
\*     next_index() returns current_index, whatever the shuffle state and
\*     the position of the current entry in the active order.
\* ------------------------------------------------------------------------
C4_RepeatWins ==
    (repeat_enabled /\ ValidIndex) => next_index = Some(current_index)

\* repeat on, shuffle on, the current entry last in the shuffle order
C4_Witness ==
    /\ repeat_enabled /\ ShuffleActive /\ ValidIndex
    /\ Len(_shuffled) = 3
    /\ _shuffled[3] = current_path

\* ------------------------------------------------------------------------
\* C5  With repeat off and a current entry, next_index() returns the
\*     files-index of the element immediately after the current entry in
\*     the active order, and none when the current entry is the last
\*     element of the active order (no wraparound).
\* ------------------------------------------------------------------------
\* 1-based position of the current entry in the active order: its index in
\* files when files is the active order, the place of its path in the
\* shuffle order otherwise (0 when the shuffle order does not hold it)
ActivePosition ==
    IF ShuffleActive
    THEN IF IndexOf(_shuffled, current_path) = None THEN 0
         ELSE IndexOf(_shuffled, current_path)[1] + 1
    ELSE current_index + 1

C5_NextIsSuccessor ==
    (~repeat_enabled /\ ValidIndex /\ ActivePosition > 0)
        => IF ActivePosition = Len(current_playlist)
           THEN next_index = None
           ELSE /\ next_index # None
                /\ files[next_index[1] + 1] = current_playlist[ActivePosition + 1]
                /\ (~ShuffleActive => next_index[1] = current_index + 1)

\* ------------------------------------------------------------------------
\* C6  With the current entry at position k of the active order,
\*     previous_index() returns none when k is the first position and
\*     otherwise the files-index of the element at position k-1 of the
\*     active order, whether repeat_enabled is true or false.
\* ------------------------------------------------------------------------
C6_PreviousIsPredecessor ==
    (ValidIndex /\ ActivePosition > 0)
        => IF ActivePosition = 1
           THEN previous_index = None
           ELSE /\ previous_index # None
                /\ files[previous_index[1] + 1] = current_playlist[ActivePosition - 1]
                /\ (~ShuffleActive => previous_index[1] = current_index - 1)

\* ------------------------------------------------------------------------
\* C7  remove(i) for a valid i: len(files) decreases by exactly 1;
\*     i < current_index decrements current_index; i = current_index
\*     makes it min(old current_index, new len(files) - 1); i >
\*     current_index leaves it.  For an out-of-range i nothing changes.
\* ------------------------------------------------------------------------
C7_RemoveStep ==
    last'.op = "remove" =>
        LET i == last'.index
        IN  IF 0 <= i /\ i < Len(files)
            THEN /\ Len(files') = Len(files) - 1
                 /\ (i < current_index => current_index' = current_index - 1)
                 /\ (i = current_index =>
                        current_index' = Min({current_index, Len(files') - 1}))
                 /\ (i > current_index => current_index' = current_index)
            ELSE UNCHANGED pmvars

C7_RemoveAdjustsIndex == [][C7_RemoveStep]_vars

\* an entry before the current one has just been removed
C7_Witness ==
    /\ last.op = "remove"
    /\ 0 <= last.index /\ last.index < last.pre_ci
    /\ current_index = last.pre_ci - 1
    /\ Len(files) = 2

\* ------------------------------------------------------------------------
\* C8  remove(i) updates files and the shuffle order in one step: with
\*     distinct entries and shuffle enabled, a shuffle order that was a
\*     permutation of files is afterwards a permutation of the new files,
\*     the removed path is in neither list, and the remaining entries
\*     keep their relative order in both.
\* ------------------------------------------------------------------------
C8_RemoveStep ==
    (/\ last'.op = "remove"
     /\ 0 <= last'.index /\ last'.index < Len(files)
     /\ shuffle_enabled /\ Distinct(files) /\ IsPermutationOf(_shuffled, files))
        => LET removed == files[last'.index + 1]
           IN  /\ IsPermutationOf(_shuffled', files')
               /\ removed \notin Range(files') \cup Range(_shuffled')
               /\ files' = SelectSeqNot(files, removed)
               /\ _shuffled' = SelectSeqNot(_shuffled, removed)

C8_RemoveKeepsShuffleInStep == [][C8_RemoveStep]_vars

\* one of three shuffled entries has just been removed, and the two left
\* stand in the shuffle order the other way round than in files
C8_Witness ==
    /\ last.op = "remove"
    /\ shuffle_enabled
    /\ Len(files) = 2 /\ Distinct(files)
    /\ _shuffled = <<files[2], files[1]>>

\* ------------------------------------------------------------------------
\* C9  set_shuffle changes the view only: files, current_index and
\*     repeat_enabled are as before; after set_shuffle(False) the shuffle
\*     order is empty and the active order is files.
\* ------------------------------------------------------------------------
C9_SetShuffleStep ==
    last'.op = "set_shuffle" =>
        /\ files' = files
        /\ current_index' = current_index
        /\ repeat_enabled' = repeat_enabled
        /\ (~last'.enabled => _shuffled' = <<>> /\ current_playlist' = files')

C9_SetShuffleIsPureView == [][C9_SetShuffleStep]_vars

\* shuffle has just been switched off on a list of three
C9_Witness ==
    /\ last.op = "set_shuffle" /\ ~last.enabled
    /\ Len(files) = 3
    /\ current_index = 2
    /\ repeat_enabled

\* ------------------------------------------------------------------------
\* C10 load(paths, current) replaces files by the supported entries of
\*     paths in sorted order, whatever files held before, and sets
\*     current_index to the position of current in the new files, to 0
\*     when current is absent or not found, to -1 when files is empty.
\*     load([/t/b2.mkv, /t/a1.mkv], current=/t/b2.mkv) gives
\*     files[0] = a1.mkv and current_path = b2.mkv.
\* ------------------------------------------------------------------------
\* how often the absolute path q is a supported entry of paths
SupportedCount(paths, q) ==
    Cardinality({i \in 1..Len(paths) :
        is_supported_video(Str(paths[i])) /\ Intern(abspath(Str(paths[i]))) = q})

C10_LoadReplaces ==
    pc = "done" =>
        /\ \A q \in AllPaths : Count(files, q) = SupportedCount(arg_paths, q)
        /\ IsSortedByKey(files)
        /\ IF files = <<>> THEN current_index = -1
           ELSE IF arg_current = None
                   \/ Intern(abspath(Str(arg_current[1]))) \notin Range(files)
           THEN current_index = 0
           ELSE /\ ValidIndex
                /\ files[current_index + 1] = Intern(abspath(Str(arg_current[1])))
                /\ \A i \in 1..current_index : files[i] # files[current_index + 1]
        /\ (arg_paths = <<PathB2, PathA1>> /\ arg_current = Some(PathB2)
               => files[1] = PathA1 /\ current_path = PathB2)

\* a list with an entry that is no video, out of order, the current entry
\* named by a relative path
C10_Witness ==
    /\ pc = "done"
    /\ arg_paths = <<PathB2, PathTxt, PathA1>>
    /\ arg_current = Some(PathRelB2)
    /\ files = <<PathA1, PathB2>>
    /\ current_index = 1

\* ------------------------------------------------------------------------
\* C11  PlaylistManager.load (via is_supported_video) and the directory
\*      scan of open-file keep a path if and only if its lower-cased
\*      extension is one of the 17 supported extensions; both accept
\*      exactly the same set.
\* VIDEO_EXTENSIONS of playlist.py holds 7 of the 17, so load drops the
\* other ten and this does not hold of SpecExt.
\* ------------------------------------------------------------------------
\* the 17 extensions of the supported set
SeventeenExtensions ==
    {Ext(<<"m", "p", "4">>), Ext(<<"m", "k", "v">>), Ext(<<"a", "v", "i">>),
     Ext(<<"m", "o", "v">>), Ext(<<"w", "m", "v">>), Ext(<<"f", "l", "v">>),
     Ext(<<"t", "s">>), Ext(<<"m", "4", "v">>), Ext(<<"3", "g", "p">>),
     Ext(<<"3", "g", "2">>), Ext(<<"m", "p", "e", "g">>), Ext(<<"m", "p", "g">>),
     Ext(<<"m", "p", "e">>), Ext(<<"r", "m">>), Ext(<<"r", "m", "v", "b">>),
     Ext(<<"v", "o", "b">>), Ext(<<"w", "e", "b", "m">>)}
HasSupportedExtension(p) == lower(splitext_ext(Str(p))) \in SeventeenExtensions

C11_SameSeventeenExtensions ==
    pc = "done" =>
        \A i \in 1..Len(arg_paths) :
            /\ (Abs(arg_paths[i]) \in Range(files)) <=> HasSupportedExtension(arg_paths[i])
            /\ is_scanned_video(basename(Str(arg_paths[i])))
                   <=> HasSupportedExtension(arg_paths[i])

\* ------------------------------------------------------------------------
\* C12  After load(paths, ...), files contains no two entries that are equal
\*      after case-folding of the absolute path, whatever duplicates
\*      (identical paths, or paths differing only in letter case) the
\*      argument contains.
\* load stores every supported path it is given, so this does not hold of
\* SpecLoad.
\* ------------------------------------------------------------------------
\* the two paths are equal after case-folding
SameFolded(p, q) == casefold(Str(p)) = casefold(Str(q))

C12_NoFoldedDuplicates ==
    pc = "done" =>
        \A i, j \in 1..Len(files) : i # j => ~SameFolded(files[i], files[j])

\* ------------------------------------------------------------------------
\* C13  Entries are matched by case-folded path equality: load(paths,
\*      current) with a current that differs from an entry of files only in
\*      letter case resolves current_index to that entry's position, not to
\*      the default 0.
\* _resolve_index looks current up with list.index on the exact absolute
\* path, so this does not hold of SpecLoad.
\* ------------------------------------------------------------------------
C13_CurrentMatchedFolded ==
    (/\ pc = "done"
     /\ arg_current # None
     /\ \E i \in 1..Len(files) : SameFolded(files[i], Abs(arg_current[1])))
        => /\ ValidIndex
           /\ SameFolded(files[current_index + 1], Abs(arg_current[1]))

\* ------------------------------------------------------------------------
\* C14  load clears the shuffle order: immediately after any load call the
\*      stored shuffle order is empty, also when shuffle_enabled is true at
\*      the time of the call.
\* _rebuild_shuffle(force_empty=True) empties the order and then builds it
\* again at once when shuffle is on, so this does not hold of Spec.
\* ------------------------------------------------------------------------
C14_LoadClearsShuffle == last.op = "load" => _shuffled = <<>>

\* ------------------------------------------------------------------------
\* C15  describe() returns "P / T" where T is the length of the active
\*      (shuffle-aware) order and P is the 1-based position of the current
\*      entry within that active order (not its index in files); it returns
\*      "0 / 0" when the playlist is empty.
\* describe finds the current entry by its path; with a path stored twice
\* (C12) it reports the first copy, or 0 when remove has taken the path
\* out of the shuffle order, so this does not hold of Spec.
\* ------------------------------------------------------------------------
C15_DescribePosition ==
    IF files = <<>>
    THEN describe = <<"0", " ", "/", " ", "0">>
    ELSE /\ ActivePosition >= 1
         /\ describe = DecimalOf(ActivePosition) \o <<" ", "/", " ">>
                           \o DecimalOf(Len(current_playlist))

\* C15 where no path is or was stored twice: files holds distinct paths and
\* the shuffle order in use is a permutation of it
C15_DescribePositionDistinct ==
    (Distinct(files) /\ (ShuffleActive => IsPermutationOf(_shuffled, files)))
        => C15_DescribePosition

\* ------------------------------------------------------------------------
\* C16  With three files loaded, the middle one (index 1) current and
\*      shuffle enabled, after remove(1) describe() starts with "1 /" and
\*      len(files) == 2, for every permutation the shuffle may have
\*      produced.
\* After remove(1) the current entry is the former third file; describe
\* reports its place in the shuffle order, which is 2 when the shuffle had
\* put it last, so this does not hold of Spec.
\* ------------------------------------------------------------------------
\* a remove(1) step from three distinct files, the middle one current and
\* first in the shuffle order
C16_RemoveStep ==
    (/\ Len(files) = 3
     /\ Distinct(files)
     /\ current_index = 1
     /\ shuffle_enabled
     /\ IsPermutationOf(_shuffled, files)
     /\ _shuffled[1] = files[2]
     /\ last'.op = "remove"
     /\ last'.index = 1
     /\ files' = Pop(files, 1))
        => /\ Len(files') = 2
           /\ Take(describe', 3) = <<"1", " ", "/">>

C16_DescribeAfterRemove == [][C16_RemoveStep]_vars

\* ------------------------------------------------------------------------
\* C17  The ordering key used by load (windows_logical_key, its fallback
\*      form included) orders paths by basename with digit runs compared as
\*      integers and letters compared case-insensitively: file2 sorts before
\*      file10, and [file2.mp4, file10.mp4, File1.mp4] sorts to File1.mp4,
\*      file2.mp4, file10.mp4.
\* The fallback key compares the transformed case-folded names first, and
\* "file10.mp4" precedes "file2.mp4" character by character, so this does
\* not hold of SpecSort.
\* ------------------------------------------------------------------------
\* natural_key of a path of the model, digit runs as integers
NaturalKeyOf(p) == natural_key(Str(p))

\* the list is in digit-aware, case-insensitive order of its basenames
InNaturalOrder(list) ==
    \A i \in 1..Len(list) - 1 :
        ~NaturalLess(NaturalKeyOf(list[i + 1]), NaturalKeyOf(list[i]))

C17_DigitRunsAsIntegers ==
    pc = "done" =>
        /\ InNaturalOrder(files)
        /\ arg_paths = <<"/t/file2.mp4", "/t/file10.mp4", "/x/File1.mp4">>
               => files = <<"/x/File1.mp4", "/t/file2.mp4", "/t/file10.mp4">>

\* ------------------------------------------------------------------------
\* C18  The fallback key orders paths primarily by the locale transform of
\*      the case-folded basename, natural_key only breaking ties between
\*      basenames equal after case-folding: [File10.mp4, file2.mp4,
\*      file-3.mp4, File1.mp4] sorts to file-3.mp4, File1.mp4, File10.mp4,
\*      file2.mp4; the directory part of a path never influences the order.
\* ------------------------------------------------------------------------
\* the transformed case-folded basename of a path of the model
FoldedName(p) == locale_transform(casefold(basename(Str(p))))

\* the entries of a list whose case-folded basename is that of p
SameNameIn(list, p) ==
    LET Same(q) == FoldedName(q) = FoldedName(p)
    IN  SelectSeq(list, Same)

C18_FallbackOrder ==
    pc = "done" =>
        \* the same entries
        /\ Len(files) = Len(arg_paths)
        /\ \A p \in Range(arg_paths) : Count(files, p) = Count(arg_paths, p)
        \* in the order of their transformed case-folded basenames
        /\ \A i \in 1..Len(files) - 1 :
               ~XfrmLess(FoldedName(files[i + 1]), FoldedName(files[i]))
        \* entries of one case-folded basename have equal natural keys and
        \* stay in the order they were given, whatever their directories
        /\ \A p \in Range(arg_paths) :
               /\ SameNameIn(files, p) = SameNameIn(arg_paths, p)
               /\ \A q \in Range(SameNameIn(files, p)) : NaturalKeyOf(q) = NaturalKeyOf(p)
        /\ arg_paths = <<"/t/File10.mp4", "/t/file2.mp4", "/t/file-3.mp4", "/x/File1.mp4">>
               => files = <<"/t/file-3.mp4", "/x/File1.mp4", "/t/File10.mp4", "/t/file2.mp4">>

\* the list of the test has been sorted, its File1 entry lying in another
\* directory than the others
C18_Sorted ==
    /\ pc = "done"
    /\ arg_paths = <<"/t/File10.mp4", "/t/file2.mp4", "/t/file-3.mp4", "/x/File1.mp4">>
    /\ files = <<"/t/file-3.mp4", "/x/File1.mp4", "/t/File10.mp4", "/t/file2.mp4">>

\* ------------------------------------------------------------------------
\* C19  play_at is strictly serialized by the _is_changing_media guard: a
\*      play_at call that arrives while another play_at is in flight is
\*      dropped (it does not change current_index, issues no engine command
\*      and is never queued or replayed later), so at most one engine load
\*      is in progress at any time, and the guard is clear again whenever a
\*      play_at call has returned, normally or by exception.
\* The restart timer of the repeat path loads its media without consulting
\* the guard, also while a play_at waits in processEvents(), so the part on
\* engine loads does not hold of SpecVP; the parts on play_at alone do.
\* ------------------------------------------------------------------------
\* a timer delivers play_at while another play_at is in flight
PlayAtArrivesInFlight == (TimerPlayAt \/ TimerEndAfter) /\ in_play_at # None

\* the call is dropped: nothing of the player or the engine changes, and
\* the timer that delivered it is gone without a new one
PlayAtDropped ==
    /\ UNCHANGED <<vp_current_index, engine_state, engine_media, in_play_at,
                   _is_changing_media, directory_playlist, shuffled_playlist>>
    /\ Len(timers') = Len(timers) - 1
    /\ \A i \in 1..Len(timers') : \E j \in 1..Len(timers) : timers'[i] = timers[j]

\* the guard is set exactly while a play_at is in flight
GuardWhileInFlight == _is_changing_media <=> in_play_at # None

\* a step that hands a media to the engine
EngineLoad == TimerRestartCurrent \/ engine_media' # engine_media

C19_NestedPlayAtDroppedStep ==
    /\ PlayAtArrivesInFlight => PlayAtDropped
    /\ GuardWhileInFlight'

C19_NestedPlayAtDropped == [][C19_NestedPlayAtDroppedStep]_vars

C19_PlayAtSerializedStep ==
    /\ C19_NestedPlayAtDroppedStep
    /\ EngineLoad => in_play_at = None

C19_PlayAtSerialized == [][C19_PlayAtSerializedStep]_vars

\* ------------------------------------------------------------------------
\* C20  VideoPlayer.play_next / play_previous are silent no-ops when no
\*      next / previous entry exists (the current entry is last / first in
\*      the active order, or the playlist is empty): no exception is raised,
\*      no play_at is scheduled, and current_index and both playlists are
\*      unchanged; when a target exists, exactly one delayed play_at for the
\*      target's canonical index is scheduled.
\* play_next logs next_original_idx after the try block (line 818), a name
\* that is bound only when a target was found, so play_next at the last
\* entry raises and this does not hold of SpecVP.
\* ------------------------------------------------------------------------
\* the place (from 1) of the player's current entry in its active order,
\* 0 when there is none
PlayerPosition ==
    IF 0 <= vp_current_index /\ vp_current_index < Len(directory_playlist)
       /\ IndexOf(_get_current_playlist, directory_playlist[vp_current_index + 1]) # None
    THEN IndexOf(_get_current_playlist, directory_playlist[vp_current_index + 1])[1] + 1
    ELSE 0

\* the canonical index of the entry at a place of the active order
CanonicalIndexAt(position) ==
    IndexOf(directory_playlist, _get_current_playlist[position])[1]

\* exactly one delayed play_at for the entry at that place is scheduled
OnePlayAtScheduled(position) ==
    timers' = Append(timers, Timer("play_at", CanonicalIndexAt(position),
                                   _get_current_playlist[position], 50))

C20_NavigationStep ==
    /\ (PlayNext \/ PlayPrevious) =>
           /\ raised' = ""
           /\ UNCHANGED <<vp_current_index, directory_playlist, shuffled_playlist>>
    /\ PlayNext =>
           IF PlayerPosition >= 1 /\ PlayerPosition < Len(_get_current_playlist)
           THEN OnePlayAtScheduled(PlayerPosition + 1)
           ELSE UNCHANGED timers
    /\ PlayPrevious =>
           IF PlayerPosition >= 2
           THEN OnePlayAtScheduled(PlayerPosition - 1)
           ELSE UNCHANGED timers

C20_SilentNavigation == [][C20_NavigationStep]_vars

\* ------------------------------------------------------------------------
\* C21  On an end-of-media event with repeat enabled (no transition in
\*      flight, valid current_index), the controller reloads and plays the
\*      same path directory_playlist[current_index] without calling the
\*      engine's stop(), leaves current_index and both playlists unchanged
\*      and resets only the seek-bar state; this branch is taken regardless
\*      of shuffle state and of whether a next entry exists.
\* The reload is the 80 ms timer of line 675: the event starts it for the
\* path that is current then, and its expiry hands that path to the engine
\* and plays it.
\* ------------------------------------------------------------------------
\* an end-of-media event that the repeat branch handles
RepeatEnd ==
    /\ MediaEnded
    /\ vp_repeat_enabled
    /\ ~_is_changing_media
    /\ 0 <= vp_current_index /\ vp_current_index < Len(directory_playlist)
    /\ _get_current_playlist # <<>>

\* the restart timers among the pending timers
RestartTimers(ts) == SelectSeq(ts, LAMBDA t : t.fn = "_restart_current")

C21_RepeatReloadStep ==
    /\ RepeatEnd =>
          /\ timers' = Append(timers, Timer("_restart_current", -1,
                                            directory_playlist[vp_current_index + 1], 80))
          /\ UNCHANGED <<vp_current_index, directory_playlist, shuffled_playlist,
                         engine_state, engine_media, _ending, _is_changing_media>>
          /\ raised' = ""
    /\ TimerRestartCurrent =>
          /\ RestartTimers(timers) # <<>>
          /\ \E i \in 1..Len(timers) :
                /\ timers[i].fn = "_restart_current"
                /\ engine_media' = timers[i].path
                /\ timers' = Pop(timers, i - 1)
          /\ engine_state' = "Playing"
          /\ UNCHANGED <<vp_current_index, directory_playlist, shuffled_playlist>>

AdvanceEnd ==
    /\ MediaEnded
    /\ ~vp_repeat_enabled
    /\ ~_is_changing_media
    /\ PlayerPosition >= 1

C22_EndAdvanceStep ==
    /\ (AdvanceEnd /\ PlayerPosition < Len(_get_current_playlist)) =>
          /\ timers' = Append(timers, Timer("_end_after",
                                            CanonicalIndexAt(PlayerPosition + 1),
                                            _get_current_playlist[PlayerPosition + 1], 80))
          /\ UNCHANGED <<vp_current_index, directory_playlist, shuffled_playlist,
                         engine_state, engine_media, _is_changing_media>>
    /\ (AdvanceEnd /\ PlayerPosition = Len(_get_current_playlist)) =>
          /\ engine_state' = "Stopped"
          /\ UNCHANGED <<timers, vp_current_index, directory_playlist,
                         shuffled_playlist, engine_media, _is_changing_media>>
    /\ (MediaEnded /\ _is_changing_media) =>
          UNCHANGED <<timers, vp_current_index, directory_playlist, shuffled_playlist,
                      engine_state, engine_media, _is_changing_media, in_play_at, _ending>>
    \* the expiry of the timer is play_at(idx): unless the guard or the
    \* range check drops it, idx becomes current and its path is loaded
    /\ (TimerEndAfter /\ ~_is_changing_media) =>
          \E i \in 1..Len(timers) :
             /\ timers[i].fn = "_end_after"
             /\ timers' = Pop(timers, i - 1)
             /\ timers[i].idx < Len(directory_playlist) =>
                   /\ vp_current_index' = timers[i].idx
                   /\ engine_media' \in {engine_media, directory_playlist[timers[i].idx + 1]}

C22_EndAdvance == [][C22_EndAdvanceStep]_vars

\* the event has been handled with shuffle on and a successor in the
\* shuffle order: the advance to its canonical index is pending
C22_AdvancePending ==
    /\ ~vp_repeat_enabled
    /\ vp_shuffle_enabled
    /\ PlayerPosition >= 1 /\ PlayerPosition < Len(_get_current_playlist)
    /\ engine_state = "Ended"
    /\ timers = <<Timer("_end_after", CanonicalIndexAt(PlayerPosition + 1),
                      _get_current_playlist[PlayerPosition + 1], 80)>>
    /\ CanonicalIndexAt(PlayerPosition + 1) # vp_current_index + 1

\* ------------------------------------------------------------------------
\* C23  Duplicate end-of-media notifications delivered in quick succession
\*      for the same finished item (the second one handled before the
\*      delayed restart or advance caused by the first has run) are ignored:
\*      they cause at most one engine reload/advance in total, in both the
\*      repeat and the non-repeat path.
\* _on_media_end clears _ending before it returns and the repeat branch
\* tests no flag at all, so the second notification starts a second timer
\* and this does not hold of SpecEnd.
\* ------------------------------------------------------------------------
\* the timers that reload or advance after an end of media
EndTimers(ts) == SelectSeq(ts, LAMBDA t : t.fn \in {"_restart_current", "_end_after"})

\* an end notification is handled while the engine still sits at the end
\* of its media and the timer started by an earlier notification is pending
DuplicateEnd ==
    /\ MediaEnded
    /\ engine_state = "Ended"
    /\ EndTimers(timers) # <<>>

C23_DuplicateEndIgnoredStep ==
    DuplicateEnd => UNCHANGED <<timers, engine_state, engine_media, vp_current_index>>

C23_DuplicateEndIgnored == [][C23_DuplicateEndIgnoredStep]_vars

\* ------------------------------------------------------------------------
\* C24  Settle-delay timers are superseded, not accumulated: if the same
\*      transition (next, previous, end-of-media advance, post-triage
\*      advance) is requested again before its pending delayed play_at has
\*      fired, only one delayed play_at fires for it, so two rapid requests
\*      never produce two engine loads.
\* QTimer.singleShot starts a timer that nothing cancels, so a second
\* play_next before the first timer has expired leaves two timers for the
\* same index pending and this does not hold of SpecRapid.
\* ------------------------------------------------------------------------
\* no two pending timers are for the same transition to the same index
C24_TimersSuperseded ==
    \A i, j \in 1..Len(timers) : i # j => timers[i] # timers[j]

\* ------------------------------------------------------------------------
\* C25  Triage-move when the destination path already exists: the move is
\*      aborted without overwriting the existing file, directory_playlist,
\*      shuffled_playlist and current_index are unchanged, no play_at is
\*      scheduled (no advance), playback is left stopped, and a failure
\*      status message is reported.
\* ------------------------------------------------------------------------
\* the triage key is handled with a file playing and that outcome of the
\* move on disk
TriageMove(outcome) ==
    /\ MoveCurrentFile
    /\ 0 <= vp_current_index /\ vp_current_index < Len(directory_playlist)
    /\ _move_current_file_and_play_next(outcome)

C25_ExistingTargetStep ==
    TriageMove("exists") =>
        /\ disk' = disk
        /\ UNCHANGED <<directory_playlist, shuffled_playlist, vp_current_index, timers>>
        /\ engine_state' = "Stopped"
        /\ status' = "move_exists"

C25_ExistingTarget == [][C25_ExistingTargetStep]_vars

\* the move of a playing entry has been refused: the failure is shown, the
\* engine is stopped, the entry is still current and on disk
C25_MoveRefused ==
    /\ status = "move_exists"
    /\ engine_state = "Stopped"
    /\ engine_media # ""
    /\ timers = <<>>
    /\ 0 <= vp_current_index /\ vp_current_index < Len(directory_playlist)
    /\ directory_playlist[vp_current_index + 1] \in disk
    /\ engine_media = directory_playlist[vp_current_index + 1]

\* ------------------------------------------------------------------------
\* C26  Triage-move ordering: the engine is stopped before the file move is
\*      attempted, and the entry is removed from the playlist (and shuffle
\*      order) only after the disk move has succeeded; on any move failure
\*      (exception, permission error, existing target) there is no partial
\*      commit - both lists and current_index keep their pre-call values.
\* ------------------------------------------------------------------------
\* the path the triage move is about
MovedPath == directory_playlist[vp_current_index + 1]

C26_NoPartialCommitStep ==
    \A outcome \in {"moved", "exists", "error"} :
        TriageMove(outcome) =>
            \* stopped whether or not the move succeeds
            /\ engine_state' = "Stopped"
            \* a failed move commits nothing
            /\ outcome # "moved" =>
                  /\ disk' = disk
                  /\ UNCHANGED <<directory_playlist, shuffled_playlist, vp_current_index,
                                 timers>>
            \* the entry leaves the lists only with the file gone from its place
            /\ directory_playlist' # directory_playlist =>
                  /\ outcome = "moved"
                  /\ MovedPath \in disk /\ MovedPath \notin disk'
                  /\ directory_playlist' = Pop(directory_playlist, vp_current_index)
                  /\ vp_shuffle_enabled => MovedPath \notin Range(shuffled_playlist')
            /\ outcome = "moved" => directory_playlist' # directory_playlist

C26_NoPartialCommit == [][C26_NoPartialCommitStep]_vars

\* a move has failed with shuffle on: the engine is stopped and the entry
\* is still current, in both lists and on disk
C26_MoveFailed ==
    /\ status = "move_error"
    /\ engine_state = "Stopped"
    /\ vp_shuffle_enabled
    /\ PlayerPosition >= 1
    /\ directory_playlist[vp_current_index + 1] \in disk

\* ------------------------------------------------------------------------
\* C27  Successful triage-move with shuffle inactive: the entry that slid
\*      into the vacated slot (same canonical index as the moved entry) is
\*      the one scheduled for play_at; if the moved entry was the last of
\*      the list or the list is now empty, no play_at is scheduled and the
\*      session remains stopped.
\* ------------------------------------------------------------------------
C27_SlidEntryPlayedStep ==
    (TriageMove("moved") /\ ~vp_shuffle_enabled) =>
        /\ engine_state' = "Stopped"
        /\ IF vp_current_index + 1 < Len(directory_playlist)
           THEN /\ timers' = Append(timers, Timer("play_at", vp_current_index,
                                                directory_playlist[vp_current_index + 2], 50))
                /\ directory_playlist'[vp_current_index + 1]
                       = directory_playlist[vp_current_index + 2]
           ELSE UNCHANGED timers

C27_SlidEntryPlayed == [][C27_SlidEntryPlayedStep]_vars

\* an entry that was not the last has been moved with shuffle off: the
\* play_at of its slot is pending
C27_SlotPending ==
    /\ status = "moved"
    /\ ~vp_shuffle_enabled
    /\ engine_state = "Stopped"
    /\ vp_current_index >= 1 /\ vp_current_index < Len(directory_playlist)
    /\ timers = <<Timer("play_at", vp_current_index,
                      directory_playlist[vp_current_index + 1], 50)>>

\* ------------------------------------------------------------------------
\* C28  Successful triage-move with shuffle active: the entry scheduled for
\*      play_at is the one that followed the moved entry in the shuffle
\*      order as it was before the removal, addressed by its canonical index
\*      in the post-removal directory_playlist; if the moved entry was last
\*      in the shuffle order, no play_at is scheduled and the session
\*      remains stopped.
\* ------------------------------------------------------------------------
C28_ShuffleSuccessorPlayedStep ==
    (TriageMove("moved") /\ vp_shuffle_enabled /\ PlayerPosition >= 1) =>
        /\ engine_state' = "Stopped"
        /\ IF PlayerPosition < Len(shuffled_playlist)
           THEN \E idx \in 0..(Len(directory_playlist') - 1) :
                   /\ directory_playlist'[idx + 1] = shuffled_playlist[PlayerPosition + 1]
                   /\ timers' = Append(timers, Timer("play_at", idx,
                                                  shuffled_playlist[PlayerPosition + 1], 50))
           ELSE UNCHANGED timers

C28_ShuffleSuccessorPlayed == [][C28_ShuffleSuccessorPlayedStep]_vars

\* an entry has been moved with shuffle on, and the pending play_at is for
\* an entry other than the one that slid into its slot
C28_SuccessorPending ==
    /\ status = "moved"
    /\ vp_shuffle_enabled
    /\ engine_state = "Stopped"
    /\ Len(timers) = 1
    /\ timers[1].fn = "play_at"
    /\ timers[1].idx # vp_current_index

\* ------------------------------------------------------------------------
\* C29  seek_by(delta): when the engine reports time t != -1 and length
\*      L > 0, the target passed to set_time lies in [0, max(0, L-1000)],
\*      and for a forward seek (delta > 0) it never exceeds
\*      max(0, L-10000); e.g. t=5000, L=70000, delta=+60000 seeks to 60000,
\*      not 65000.  When the engine reports t == -1 (unknown position)
\*      set_time is not called.
\* ------------------------------------------------------------------------
C29_SeekClamped ==
    /\ (seek.t # -1 /\ seek.length > 0) =>
          /\ seek.set_time # None
          /\ seek.set_time[1] >= 0
          /\ seek.set_time[1] <= MaxOf(0, seek.length - 1000)
          /\ seek.delta > 0 => seek.set_time[1] <= MaxOf(0, seek.length - 10000)
    /\ (seek.t = 5000 /\ seek.length = 70000 /\ seek.delta = 60000) =>
          seek.set_time = Some(60000)
    /\ seek.t = -1 => seek.set_time = None

\* the seek of the example has been made
C29_ExampleSeek ==
    seek = [t |-> 5000, length |-> 70000, delta |-> 60000, set_time |-> Some(60000)]

\* ------------------------------------------------------------------------
\* C30  Playback rate: after any sequence of rate changes (steps of +0.1 /
\*      -0.1, in integer hundredths) the stored playback_rate stays within
\*      [playback_rate_min, playback_rate_max] = [0.25, 4.0]; the value
\*      forwarded to the engine is the clamped value, the clamped value is
\*      the one stored, and every later play_at re-applies the stored rate
\*      to the engine after the new media is set and before play() is
\*      issued.
\* ------------------------------------------------------------------------
RateInRange(r) == playback_rate_min <= r /\ r <= playback_rate_max

C30_RateClampedStep ==
    /\ RateInRange(playback_rate) /\ RateInRange(playback_rate')
    /\ ChangeRate =>
          /\ engine_rate' = playback_rate'
          /\ \E delta \in {RateStep, -RateStep} :
                playback_rate' = IF playback_rate + delta < playback_rate_min
                                 THEN playback_rate_min
                                 ELSE IF playback_rate + delta > playback_rate_max
                                 THEN playback_rate_max
                                 ELSE playback_rate + delta
    \* the media is set when play_at enters processEvents(); play() comes
    \* with the return from it
    /\ PlayAtResumes =>
          /\ engine_media' = engine_media
          /\ engine_rate' = playback_rate
          /\ playback_rate' = playback_rate
          /\ raised' = "" => engine_state' = "Playing"

C30_RateClamped == [][C30_RateClampedStep]_vars

\* the rate has been stepped below the minimum and clamped, and a file has
\* been played at it
C30_ClampedAndPlayed ==
    /\ playback_rate = playback_rate_min
    /\ engine_rate = playback_rate_min
    /\ engine_state = "Playing"
    /\ status = "playing"
\* ------------------------------------------------------------------------
\* C31  If the engine fails while play_at sets up the media (media_new,
\*      parse or set_media raises), the operation is aborted and
\*      current_index has the value it had before the call: the session is
\*      never left with current_index naming an entry the engine did not
\*      load.
\* ------------------------------------------------------------------------
\* timer i expires and calls play_at(idx), which passes the range test and
\* the guard, stops the engine and returns at line 767 without the media set
PlayAtSetupFailed(i) ==
    /\ TimerPlayAt \/ TimerEndAfter
    /\ CanFire(i)
    /\ timers[i].fn \in {"play_at", "_end_after"}
    /\ timers' = Pop(timers, i - 1)
    /\ 0 <= timers[i].idx /\ timers[i].idx < Len(directory_playlist)
    /\ ~_is_changing_media
    /\ ~_is_changing_media'
    /\ in_play_at' = None
    /\ engine_media' = engine_media

C31_SetupFailureRevertsStep ==
    \A i \in 1..Len(timers) :
        PlayAtSetupFailed(i) => vp_current_index' = vp_current_index

C31_SetupFailureReverts == [][C31_SetupFailureRevertsStep]_vars
\* ------------------------------------------------------------------------
\* C32  No exception raised by an engine call made from play_at, stop,
\*      toggle_play, the triage move, the end-of-media handler or the
\*      status poll leaves the controller operation for the UI event loop;
\*      the failing operation is a no-op.
\* ------------------------------------------------------------------------
\* the handler that ran last did not end by an exception of the engine
C32_EngineErrorsContained == raised # "Exception"
\* ------------------------------------------------------------------------
\* C33  open-file fully replaces the prior playlist state: after a
\*      successful open of file p, directory_playlist consists exactly of
\*      the supported video files of p's directory in sorted order (or of p
\*      alone when the directory holds none), no entry of the previous
\*      playlist remains unless it is in that directory, current_index is
\*      p's position (0 if p is not in the list), and play_at is invoked
\*      for it; if p is not an existing file or the directory scan fails,
\*      playlist, current_index and shuffle state are unchanged.
\* ------------------------------------------------------------------------
\* the files present in the directory of p that have a supported extension
VideosBeside(p) ==
    {q \in disk : /\ dirname(Str(q)) = dirname(Str(p))
                  /\ lower(splitext_ext(basename(Str(q)))) \in SUPPORTED_VIDEO_EXTENSIONS}

\* p names a file and os.listdir of its directory succeeds (os.listdir("")
\* raises FileNotFoundError)
OpenSucceeds(p) == Abs(p) \in disk /\ dirname(Str(p)) # <<>>

\* the step is open-file of p
Opens(p) == OpenFileAcross /\ _load_file_and_directory(p)

C33_OpenReplacesStep ==
    \A p \in AcrossPaths :
        Opens(p) =>
            IF OpenSucceeds(p)
            THEN LET members == IF VideosBeside(p) = {} THEN {p} ELSE VideosBeside(p)
                     position == IndexOf(directory_playlist', p)
                     index == IF position = None THEN 0 ELSE position[1]
                 IN  /\ Range(directory_playlist') = members
                     /\ Distinct(directory_playlist')
                     /\ IsSortedByKey(directory_playlist')
                     /\ \A q \in Range(directory_playlist) :
                            q \in Range(directory_playlist')
                                => dirname(Str(q)) = dirname(Str(p))
                     /\ vp_current_index' = index
                     \* play_at(current_index): dropped while another is in
                     \* flight, else it stops the engine and sets the media
                     \* of that entry unless the engine refuses it
                     /\ IF _is_changing_media
                        THEN UNCHANGED <<engine_state, engine_media, in_play_at>>
                        ELSE /\ engine_state' = "Stopped"
                             /\ in_play_at' \in
                                    {None, Some([index |-> index,
                                                 path |-> directory_playlist'[index + 1]])}
                             /\ in_play_at' # None =>
                                    engine_media' = directory_playlist'[index + 1]
                     /\ ~vp_shuffle_enabled' /\ shuffled_playlist' = <<>>
            ELSE UNCHANGED <<directory_playlist, vp_current_index,
                             vp_shuffle_enabled, shuffled_playlist>>

C33_OpenReplaces == [][C33_OpenReplacesStep]_vars

\* a file of the second directory has been opened from a playlist of the
\* first: the timer of a next request made there is still pending, and the
\* list holds the one video of the second directory, its media being set
C33_OtherDirectoryOpened ==
    /\ directory_playlist = <<PathOther>>
    /\ vp_current_index = 0
    /\ in_play_at = Some([index |-> 0, path |-> PathOther])
    /\ Len(timers) = 1 /\ timers[1].idx = 1
    /\ PathA1 \in disk /\ PathB2 \in disk
\* ------------------------------------------------------------------------
\* C34  In play_at, current_index is set to the new index before any
\*      engine command (stop, media load, play) is issued, so every read
\*      of current_index made while the engine is still loading (also from
\*      handlers run by the nested processEvents) sees the new index.
\* ------------------------------------------------------------------------
\* a step on which play_at starts loading, a step handled inside its
\* processEvents() call by a handler other than open-file (which selects an
\* entry itself), and a step on which play_at has stopped the engine and
\* then given up on the media
C34_IndexBeforeEngineStep ==
    /\ (in_play_at = None /\ in_play_at' # None)
           => /\ vp_current_index' = in_play_at'[1].index
              /\ engine_state' = "Stopped"
    /\ (in_play_at # None /\ in_play_at' # None)
           => (vp_current_index' = vp_current_index \/ OpenFile)
    /\ \A i \in 1..Len(timers) :
           PlayAtSetupFailed(i) => vp_current_index' = timers[i].idx

C35_ShuffleView ==
    /\ (vp_shuffle_enabled /\ directory_playlist # <<>>)
           => IsPermutationOf(shuffled_playlist, directory_playlist)
    /\ ~vp_shuffle_enabled => shuffled_playlist = <<>>
\* ------------------------------------------------------------------------
\* C36  Whenever the engine is playing, the media it has loaded is the
\*      path directory_playlist[current_index]: no interleaving of user
\*      events (next, previous, open-file, triage-move) with the pending
\*      delayed callbacks (the 80 ms repeat restart, the 80 ms end-of-media
\*      advance, the 50 ms next/previous/triage advance) leads to a state
\*      in which the engine plays a path different from the one
\*      current_index designates.
\* ------------------------------------------------------------------------
C36_EnginePlaysCurrent ==
    engine_state = "Playing"
        => /\ 0 <= vp_current_index /\ vp_current_index < Len(directory_playlist)
           /\ engine_media = directory_playlist[vp_current_index + 1]
\* ------------------------------------------------------------------------
\* C37  A delayed play_at plays the file that was selected when it was
\*      scheduled: if a triage-move or open-file changes directory_playlist
\*      between the scheduling of a delayed play_at(index) (by next,
\*      previous, end-of-media or triage) and its firing, the path loaded
\*      when the timer fires is still the path that was at that index at
\*      scheduling time (or the call is dropped), never a different file
\*      that has since moved into that index.
\* ------------------------------------------------------------------------
\* timer i expires and its play_at(idx) sets the media of an entry
DelayedPlayAtLoads(i) ==
    /\ TimerPlayAt \/ TimerEndAfter
    /\ CanFire(i)
    /\ timers[i].fn \in {"play_at", "_end_after"}
    /\ timers' = Pop(timers, i - 1)
    /\ in_play_at = None
    /\ in_play_at' # None

C37_DelayedPlaysSelectedStep ==
    \A i \in 1..Len(timers) :
        DelayedPlayAtLoads(i) => in_play_at'[1].path = timers[i].path

C37_DelayedPlaysSelected == [][C37_DelayedPlaysSelectedStep]_vars
\* ------------------------------------------------------------------------
\* C38  A forward seek never moves playback backwards: for every engine
\*      time t >= 0, length L > 0 and delta > 0, the target that seek_by
\*      passes to set_time is >= t whenever t <= L - 1000 (in particular
\*      when t already lies within the last 10 seconds of the media).
\* ------------------------------------------------------------------------
C38_ForwardSeekNotBackwards ==
    (seek.t >= 0 /\ seek.length > 0 /\ seek.delta > 0 /\ seek.t <= seek.length - 1000)
        => /\ seek.set_time # None
           /\ seek.set_time[1] >= seek.t
\* ------------------------------------------------------------------------
\* C40  Navigation round-trip in PlaylistManager: with repeat off, in any
\*      state reachable through load, set_shuffle and remove (shuffle on or
\*      off), if next_index() returns j (not none) and current_index is
\*      then set to j, previous_index() returns the original current_index;
\*      symmetrically previous followed by next returns to the start.  This
\*      holds for every argument of load, including path lists that contain
\*      the same path more than once.
\* ------------------------------------------------------------------------
C40_RoundTripStep ==
    /\ (Advance /\ ~repeat_enabled /\ ValidIndex)
           => previous_index' = Some(current_index)
    /\ (Retreat /\ ~repeat_enabled)
           => next_index' = Some(current_index)

C40_RoundTrip == [][C40_RoundTripStep]_vars

\* the round trip from the states whose entries are distinct
C40_RoundTripDistinctStep == Distinct(files) => C40_RoundTripStep

C40_RoundTripDistinct == [][C40_RoundTripDistinctStep]_vars
\* ------------------------------------------------------------------------
\* C39  Auto-advance terminates: with repeat disabled, no user input, and
\*      the engine delivering one end-of-media event for each item it
\*      plays, a session started at any entry of a finite playlist
\*      eventually reaches the stopped state; each auto-advance moves the
\*      current entry exactly one position forward in the active
\*      (shuffle-aware) order, no entry is played twice, and the number of
\*      advances is at most the number of entries after the starting one.
\* ------------------------------------------------------------------------
\* the session has come to rest: the engine is stopped and nothing is
\* pending that could start it again
AutoStopped ==
    /\ engine_state = "Stopped"
    /\ timers = <<>>
    /\ in_play_at = None
    /\ media_ended = 0

\* the entries of the active order after the current one
EntriesAfterCurrent == Len(_get_current_playlist) - PlayerPosition

\* while the session is left alone: the lists stay as they are; the current
\* entry changes on the expiry of the 80 ms timer only, to the entry one
\* place further in the active order, whose media is then set (each advance
\* takes one from EntriesAfterCurrent, which is never negative: no entry
\* comes twice and there are at most as many advances as entries after the
\* first); and the end of the last entry stops the engine
C39_AutoAdvanceStep ==
    (pc = "auto") =>
        /\ UNCHANGED <<directory_playlist, shuffled_playlist, vp_shuffle_enabled>>
        /\ PlayerPosition >= 1
        /\ EntriesAfterCurrent' >= 0
        /\ IF AutoTimerEndAfter
           THEN /\ PlayerPosition' = PlayerPosition + 1
                /\ EntriesAfterCurrent' = EntriesAfterCurrent - 1
                /\ in_play_at' # None =>
                       in_play_at'[1].path = _get_current_playlist[PlayerPosition + 1]
           ELSE UNCHANGED vp_current_index
        /\ AutoMediaEnded =>
               IF EntriesAfterCurrent = 0
               THEN engine_state' = "Stopped" /\ timers' = <<>>
               ELSE Len(timers') = 1 /\ timers'[1].fn = "_end_after"

C39_AutoAdvanceTerminates ==
    /\ [][C39_AutoAdvanceStep]_vars
    /\ (pc = "auto") ~> [](AutoStopped)

\* left alone with the first of three entries in shuffle order, the session
\* has advanced twice and stopped at the end of the last
C39_PlayedToTheEnd ==
    /\ pc = "auto"
    /\ AutoStopped
    /\ vp_shuffle_enabled
    /\ Len(shuffled_playlist) = 3
    /\ PlayerPosition = 3
    /\ engine_media = shuffled_playlist[3]
    /\ status = "playing"

====
